---- MODULE Spec2Model ----
(***************************************************************************)
(* Model of the document-analysis backend (DocuMind AI).                   *)
(*                                                                         *)
(*   src/users/routers/auth.py  relational variant: chunk_text, /analyze,  *)
(*                              /analyze/stream                            *)
(*   src/api/index.py           in-memory variant: /auth/analyze           *)
(*                                                                         *)
(* A text is a sequence of characters (code points).  SpecChunk runs       *)
(* chunk_text statement by statement on bounded inputs; Spec follows one   *)
(* analysis request through an endpoint, the inference service being the   *)
(* environment.                                                            *)
(***************************************************************************)
EXTENDS Integers, Sequences, FiniteSets, TLC

\* ------------------------------------------------------------------------
\* Bounds of the model
\* ------------------------------------------------------------------------

\* longest text given to chunk_text
MaxLen == 6

\* largest chunk_size given to chunk_text
MaxChunkSize == 4

\* largest overlap given to chunk_text (reaches beyond MaxChunkSize)
MaxOverlap == 5

\* longest uploaded file, in bytes
MaxBytes == 2

\* most pages, paragraphs or report lines a parser returns
MaxParts == 2

\* most lines read from a streamed response
MaxLines == 3

\* most account calls made in a run
MaxCalls == 5

\* latest hour the clock reaches
MaxClock == 2

\* chunk_size of the analysis endpoints (auth.py:201, 272)
AnalyzeChunkSize == 12000

\* default overlap of chunk_text (auth.py:87)
DefaultOverlap == 500

\* characters of the document the in-memory endpoint embeds (index.py:1266)
TruncateTo == 12000

\* hours a reset token is good for (index.py:1225, auth.py:142)
ResetTokenHours == 1

\* iterations of the while loop of chunk_text the model follows; a run that
\* terminates makes at most MaxLen iterations, so only a run that does not
\* terminate is cut here
MaxIter == MaxLen + 2

\* the text whose i-th character is i: every position is recognisable
IdText(n) == [i \in 1..n |-> i]

\* the texts chunk_text is run on: those of recognisable positions and
\* every text of two characters
Texts == { IdText(n) : n \in 0..MaxLen } \cup UNION { [1..n -> {1, 2}] : n \in 0..MaxLen }

\* ------------------------------------------------------------------------
\* Python sequence operations
\* ------------------------------------------------------------------------

\* s[lo:hi] of Python: a negative index counts from the end, and both
\* indexes are clamped to 0..len(s)
PySlice(s, lo, hi) ==
    LET n == Len(s)
        norm(i) == IF i < 0 THEN (IF i + n >= 0 THEN i + n ELSE 0)
                   ELSE (IF i <= n THEN i ELSE n)
        a == norm(lo)
        b == norm(hi)
    IN  IF a >= b THEN << >> ELSE SubSeq(s, a + 1, b)

\* s[k:] of Python for k >= 0
PyDrop(s, k) == PySlice(s, k, Len(s))

\* s[:k] of Python for k >= 0
PyTake_whole(s, k) == s

PyTake(s, k) == PySlice(s, 0, k)

\* ------------------------------------------------------------------------
\* Uploaded bytes and their decoding
\* ------------------------------------------------------------------------

\* the byte values of the uploaded files: "A", and the two bytes of the
\* UTF-8 encoding of U+00E9, each of which is invalid UTF-8 on its own
Bytes == {65, 195, 169}

\* the uploaded files
Contents == UNION { [1..n -> Bytes] : n \in 0..MaxBytes }

\* a long upload of n printable ASCII bytes, the byte at a position
\* following from the position
LongContent(n) == [i \in 1..n |-> 32 + (i % 95)]

\* the long uploads: one character more than the analysis endpoints put in
\* one chunk, and one character more than they put in two
LongContents == { LongContent(AnalyzeChunkSize + 1),
                  LongContent(2 * AnalyzeChunkSize - DefaultOverlap + 1) }

\* the number of bytes of the UTF-8 sequence a lead byte opens, 0 for a byte
\* that opens none
Utf8SeqLen(b) ==
    IF b < 128 THEN 1
    ELSE IF b \in 194..223 THEN 2
    ELSE IF b \in 224..239 THEN 3
    ELSE IF b \in 240..244 THEN 4
    ELSE 0

\* the values the second byte of a sequence may take after lead byte b
Utf8Second(b) ==
    IF b = 224 THEN 160..191
    ELSE IF b = 237 THEN 128..159
    ELSE IF b = 240 THEN 144..191
    ELSE IF b = 244 THEN 128..143
    ELSE 128..191

\* bytes i+1 .. i+n-1 continue the sequence opened by byte i
Utf8TailOk(bs, i, n) ==
    /\ i + n - 1 <= Len(bs)
    /\ n >= 2 => bs[i + 1] \in Utf8Second(bs[i])
    /\ \A k \in 2..(n - 1) : bs[i + k] \in 128..191

\* the code point of the n-byte sequence at i
Utf8CodePoint(bs, i, n) ==
    IF n = 1 THEN bs[i]
    ELSE IF n = 2 THEN (bs[i] - 192) * 64 + (bs[i + 1] - 128)
    ELSE IF n = 3 THEN (bs[i] - 224) * 4096 + (bs[i + 1] - 128) * 64 + (bs[i + 2] - 128)
    ELSE (bs[i] - 240) * 262144 + (bs[i + 1] - 128) * 4096
         + (bs[i + 2] - 128) * 64 + (bs[i + 3] - 128)

RECURSIVE Utf8From(_, _, _)
Utf8From(bs, i, acc) ==
    IF i > Len(bs) THEN [ok |-> TRUE, text |-> acc]
    ELSE LET n == Utf8SeqLen(bs[i])
         IN  IF n = 0 \/ ~Utf8TailOk(bs, i, n)
             THEN [ok |-> FALSE, text |-> << >>]
             ELSE Utf8From(bs, i + n, Append(acc, Utf8CodePoint(bs, i, n)))

\* content.decode('utf-8'): ok is FALSE where Python raises UnicodeDecodeError;
\* bytes that are all below 128 decode to themselves
Utf8Decode(bs) ==
    IF \A i \in 1..Len(bs) : bs[i] < 128 THEN [ok |-> TRUE, text |-> bs] ELSE Utf8From(bs, 1, << >>)

\* content.decode('latin-1'): byte b is the character U+00b, for every byte
Latin1Decode(bs) == [ok |-> TRUE, text |-> [i \in 1..Len(bs) |-> bs[i]]]

\* the line feed
NewLine == << 10 >>

\* sep.join(parts)
RECURSIVE Join(_, _)
Join(parts, sep) ==
    IF parts = << >> THEN << >>
    ELSE IF Len(parts) = 1 THEN parts[1]
    ELSE parts[1] \o sep \o Join(Tail(parts), sep)

\* ------------------------------------------------------------------------
\* File names: sequences of code points
\* ------------------------------------------------------------------------

\* the full stop
Dot == 46

\* str.lower() on one character that lowers to one character, by the Unicode
\* data of the interpreter (14.0.0): << lo, hi, step, d >> says that the
\* characters lo, lo + step, ..., hi lower to themselves plus d
LowerRanges == <<
    << 65, 90, 1, 32 >>, << 192, 214, 1, 32 >>, << 216, 222, 1, 32 >>, << 256, 302, 2, 1 >>, << 306, 310, 2, 1 >>,
    << 313, 327, 2, 1 >>, << 330, 374, 2, 1 >>, << 376, 376, 1, -121 >>, << 377, 381, 2, 1 >>, << 385, 385, 1, 210 >>,
    << 386, 388, 2, 1 >>, << 390, 390, 1, 206 >>, << 391, 391, 1, 1 >>, << 393, 394, 1, 205 >>, << 395, 395, 1, 1 >>,
    << 398, 398, 1, 79 >>, << 399, 399, 1, 202 >>, << 400, 400, 1, 203 >>, << 401, 401, 1, 1 >>, << 403, 403, 1, 205 >>,
    << 404, 404, 1, 207 >>, << 406, 406, 1, 211 >>, << 407, 407, 1, 209 >>, << 408, 408, 1, 1 >>, << 412, 412, 1, 211 >>,
    << 413, 413, 1, 213 >>, << 415, 415, 1, 214 >>, << 416, 420, 2, 1 >>, << 422, 422, 1, 218 >>, << 423, 423, 1, 1 >>,
    << 425, 425, 1, 218 >>, << 428, 428, 1, 1 >>, << 430, 430, 1, 218 >>, << 431, 431, 1, 1 >>, << 433, 434, 1, 217 >>,
    << 435, 437, 2, 1 >>, << 439, 439, 1, 219 >>, << 440, 440, 1, 1 >>, << 444, 444, 1, 1 >>, << 452, 452, 1, 2 >>,
    << 453, 453, 1, 1 >>, << 455, 455, 1, 2 >>, << 456, 456, 1, 1 >>, << 458, 458, 1, 2 >>, << 459, 475, 2, 1 >>,
    << 478, 494, 2, 1 >>, << 497, 497, 1, 2 >>, << 498, 500, 2, 1 >>, << 502, 502, 1, -97 >>, << 503, 503, 1, -56 >>,
    << 504, 542, 2, 1 >>, << 544, 544, 1, -130 >>, << 546, 562, 2, 1 >>, << 570, 570, 1, 10795 >>, << 571, 571, 1, 1 >>,
    << 573, 573, 1, -163 >>, << 574, 574, 1, 10792 >>, << 577, 577, 1, 1 >>, << 579, 579, 1, -195 >>, << 580, 580, 1, 69 >>,
    << 581, 581, 1, 71 >>, << 582, 590, 2, 1 >>, << 880, 882, 2, 1 >>, << 886, 886, 1, 1 >>, << 895, 895, 1, 116 >>,
    << 902, 902, 1, 38 >>, << 904, 906, 1, 37 >>, << 908, 908, 1, 64 >>, << 910, 911, 1, 63 >>, << 913, 929, 1, 32 >>,
    << 931, 939, 1, 32 >>, << 975, 975, 1, 8 >>, << 984, 1006, 2, 1 >>, << 1012, 1012, 1, -60 >>, << 1015, 1015, 1, 1 >>,
    << 1017, 1017, 1, -7 >>, << 1018, 1018, 1, 1 >>, << 1021, 1023, 1, -130 >>, << 1024, 1039, 1, 80 >>, << 1040, 1071, 1, 32 >>,
    << 1120, 1152, 2, 1 >>, << 1162, 1214, 2, 1 >>, << 1216, 1216, 1, 15 >>, << 1217, 1229, 2, 1 >>, << 1232, 1326, 2, 1 >>,
    << 1329, 1366, 1, 48 >>, << 4256, 4293, 1, 7264 >>, << 4295, 4295, 1, 7264 >>, << 4301, 4301, 1, 7264 >>, << 5024, 5103, 1, 38864 >>,
    << 5104, 5109, 1, 8 >>, << 7312, 7354, 1, -3008 >>, << 7357, 7359, 1, -3008 >>, << 7680, 7828, 2, 1 >>, << 7838, 7838, 1, -7615 >>,
    << 7840, 7934, 2, 1 >>, << 7944, 7951, 1, -8 >>, << 7960, 7965, 1, -8 >>, << 7976, 7983, 1, -8 >>, << 7992, 7999, 1, -8 >>,
    << 8008, 8013, 1, -8 >>, << 8025, 8031, 2, -8 >>, << 8040, 8047, 1, -8 >>, << 8072, 8079, 1, -8 >>, << 8088, 8095, 1, -8 >>,
    << 8104, 8111, 1, -8 >>, << 8120, 8121, 1, -8 >>, << 8122, 8123, 1, -74 >>, << 8124, 8124, 1, -9 >>, << 8136, 8139, 1, -86 >>,
    << 8140, 8140, 1, -9 >>, << 8152, 8153, 1, -8 >>, << 8154, 8155, 1, -100 >>, << 8168, 8169, 1, -8 >>, << 8170, 8171, 1, -112 >>,
    << 8172, 8172, 1, -7 >>, << 8184, 8185, 1, -128 >>, << 8186, 8187, 1, -126 >>, << 8188, 8188, 1, -9 >>, << 8486, 8486, 1, -7517 >>,
    << 8490, 8490, 1, -8383 >>, << 8491, 8491, 1, -8262 >>, << 8498, 8498, 1, 28 >>, << 8544, 8559, 1, 16 >>, << 8579, 8579, 1, 1 >>,
    << 9398, 9423, 1, 26 >>, << 11264, 11311, 1, 48 >>, << 11360, 11360, 1, 1 >>, << 11362, 11362, 1, -10743 >>, << 11363, 11363, 1, -3814 >>,
    << 11364, 11364, 1, -10727 >>, << 11367, 11371, 2, 1 >>, << 11373, 11373, 1, -10780 >>, << 11374, 11374, 1, -10749 >>, << 11375, 11375, 1, -10783 >>,
    << 11376, 11376, 1, -10782 >>, << 11378, 11378, 1, 1 >>, << 11381, 11381, 1, 1 >>, << 11390, 11391, 1, -10815 >>, << 11392, 11490, 2, 1 >>,
    << 11499, 11501, 2, 1 >>, << 11506, 11506, 1, 1 >>, << 42560, 42604, 2, 1 >>, << 42624, 42650, 2, 1 >>, << 42786, 42798, 2, 1 >>,
    << 42802, 42862, 2, 1 >>, << 42873, 42875, 2, 1 >>, << 42877, 42877, 1, -35332 >>, << 42878, 42886, 2, 1 >>, << 42891, 42891, 1, 1 >>,
    << 42893, 42893, 1, -42280 >>, << 42896, 42898, 2, 1 >>, << 42902, 42920, 2, 1 >>, << 42922, 42922, 1, -42308 >>, << 42923, 42923, 1, -42319 >>,
    << 42924, 42924, 1, -42315 >>, << 42925, 42925, 1, -42305 >>, << 42926, 42926, 1, -42308 >>, << 42928, 42928, 1, -42258 >>, << 42929, 42929, 1, -42282 >>,
    << 42930, 42930, 1, -42261 >>, << 42931, 42931, 1, 928 >>, << 42932, 42946, 2, 1 >>, << 42948, 42948, 1, -48 >>, << 42949, 42949, 1, -42307 >>,
    << 42950, 42950, 1, -35384 >>, << 42951, 42953, 2, 1 >>, << 42960, 42960, 1, 1 >>, << 42966, 42968, 2, 1 >>, << 42997, 42997, 1, 1 >>,
    << 65313, 65338, 1, 32 >>, << 66560, 66599, 1, 40 >>, << 66736, 66771, 1, 40 >>, << 66928, 66938, 1, 39 >>, << 66940, 66954, 1, 39 >>,
    << 66956, 66962, 1, 39 >>, << 66964, 66965, 1, 39 >>, << 68736, 68786, 1, 64 >>, << 71840, 71871, 1, 32 >>, << 93760, 93791, 1, 32 >>,
    << 125184, 125217, 1, 34 >> >>

\* the characters a capital sigma looks through for its neighbours (the
\* case-ignorable ones), as ranges << lo, hi >>
CaseIgnorableRanges == <<
    << 39, 39 >>, << 46, 46 >>, << 58, 58 >>, << 94, 94 >>, << 96, 96 >>, << 168, 168 >>, << 173, 173 >>,
    << 175, 175 >>, << 180, 180 >>, << 183, 184 >>, << 688, 879 >>, << 884, 885 >>, << 890, 890 >>, << 900, 901 >>,
    << 903, 903 >>, << 1155, 1161 >>, << 1369, 1369 >>, << 1375, 1375 >>, << 1425, 1469 >>, << 1471, 1471 >>, << 1473, 1474 >>,
    << 1476, 1477 >>, << 1479, 1479 >>, << 1524, 1524 >>, << 1536, 1541 >>, << 1552, 1562 >>, << 1564, 1564 >>, << 1600, 1600 >>,
    << 1611, 1631 >>, << 1648, 1648 >>, << 1750, 1757 >>, << 1759, 1768 >>, << 1770, 1773 >>, << 1807, 1807 >>, << 1809, 1809 >>,
    << 1840, 1866 >>, << 1958, 1968 >>, << 2027, 2037 >>, << 2042, 2042 >>, << 2045, 2045 >>, << 2070, 2093 >>, << 2137, 2139 >>,
    << 2184, 2184 >>, << 2192, 2193 >>, << 2200, 2207 >>, << 2249, 2306 >>, << 2362, 2362 >>, << 2364, 2364 >>, << 2369, 2376 >>,
    << 2381, 2381 >>, << 2385, 2391 >>, << 2402, 2403 >>, << 2417, 2417 >>, << 2433, 2433 >>, << 2492, 2492 >>, << 2497, 2500 >>,
    << 2509, 2509 >>, << 2530, 2531 >>, << 2558, 2558 >>, << 2561, 2562 >>, << 2620, 2620 >>, << 2625, 2626 >>, << 2631, 2632 >>,
    << 2635, 2637 >>, << 2641, 2641 >>, << 2672, 2673 >>, << 2677, 2677 >>, << 2689, 2690 >>, << 2748, 2748 >>, << 2753, 2757 >>,
    << 2759, 2760 >>, << 2765, 2765 >>, << 2786, 2787 >>, << 2810, 2815 >>, << 2817, 2817 >>, << 2876, 2876 >>, << 2879, 2879 >>,
    << 2881, 2884 >>, << 2893, 2893 >>, << 2901, 2902 >>, << 2914, 2915 >>, << 2946, 2946 >>, << 3008, 3008 >>, << 3021, 3021 >>,
    << 3072, 3072 >>, << 3076, 3076 >>, << 3132, 3132 >>, << 3134, 3136 >>, << 3142, 3144 >>, << 3146, 3149 >>, << 3157, 3158 >>,
    << 3170, 3171 >>, << 3201, 3201 >>, << 3260, 3260 >>, << 3263, 3263 >>, << 3270, 3270 >>, << 3276, 3277 >>, << 3298, 3299 >>,
    << 3328, 3329 >>, << 3387, 3388 >>, << 3393, 3396 >>, << 3405, 3405 >>, << 3426, 3427 >>, << 3457, 3457 >>, << 3530, 3530 >>,
    << 3538, 3540 >>, << 3542, 3542 >>, << 3633, 3633 >>, << 3636, 3642 >>, << 3654, 3662 >>, << 3761, 3761 >>, << 3764, 3772 >>,
    << 3782, 3782 >>, << 3784, 3789 >>, << 3864, 3865 >>, << 3893, 3893 >>, << 3895, 3895 >>, << 3897, 3897 >>, << 3953, 3966 >>,
    << 3968, 3972 >>, << 3974, 3975 >>, << 3981, 3991 >>, << 3993, 4028 >>, << 4038, 4038 >>, << 4141, 4144 >>, << 4146, 4151 >>,
    << 4153, 4154 >>, << 4157, 4158 >>, << 4184, 4185 >>, << 4190, 4192 >>, << 4209, 4212 >>, << 4226, 4226 >>, << 4229, 4230 >>,
    << 4237, 4237 >>, << 4253, 4253 >>, << 4348, 4348 >>, << 4957, 4959 >>, << 5906, 5908 >>, << 5938, 5939 >>, << 5970, 5971 >>,
    << 6002, 6003 >>, << 6068, 6069 >>, << 6071, 6077 >>, << 6086, 6086 >>, << 6089, 6099 >>, << 6103, 6103 >>, << 6109, 6109 >>,
    << 6155, 6159 >>, << 6211, 6211 >>, << 6277, 6278 >>, << 6313, 6313 >>, << 6432, 6434 >>, << 6439, 6440 >>, << 6450, 6450 >>,
    << 6457, 6459 >>, << 6679, 6680 >>, << 6683, 6683 >>, << 6742, 6742 >>, << 6744, 6750 >>, << 6752, 6752 >>, << 6754, 6754 >>,
    << 6757, 6764 >>, << 6771, 6780 >>, << 6783, 6783 >>, << 6823, 6823 >>, << 6832, 6862 >>, << 6912, 6915 >>, << 6964, 6964 >>,
    << 6966, 6970 >>, << 6972, 6972 >>, << 6978, 6978 >>, << 7019, 7027 >>, << 7040, 7041 >>, << 7074, 7077 >>, << 7080, 7081 >>,
    << 7083, 7085 >>, << 7142, 7142 >>, << 7144, 7145 >>, << 7149, 7149 >>, << 7151, 7153 >>, << 7212, 7219 >>, << 7222, 7223 >>,
    << 7288, 7293 >>, << 7376, 7378 >>, << 7380, 7392 >>, << 7394, 7400 >>, << 7405, 7405 >>, << 7412, 7412 >>, << 7416, 7417 >>,
    << 7468, 7530 >>, << 7544, 7544 >>, << 7579, 7679 >>, << 8125, 8125 >>, << 8127, 8129 >>, << 8141, 8143 >>, << 8157, 8159 >>,
    << 8173, 8175 >>, << 8189, 8190 >>, << 8203, 8207 >>, << 8216, 8217 >>, << 8228, 8228 >>, << 8231, 8231 >>, << 8234, 8238 >>,
    << 8288, 8292 >>, << 8294, 8303 >>, << 8305, 8305 >>, << 8319, 8319 >>, << 8336, 8348 >>, << 8400, 8432 >>, << 11388, 11389 >>,
    << 11503, 11505 >>, << 11631, 11631 >>, << 11647, 11647 >>, << 11744, 11775 >>, << 11823, 11823 >>, << 12293, 12293 >>, << 12330, 12333 >>,
    << 12337, 12341 >>, << 12347, 12347 >>, << 12441, 12446 >>, << 12540, 12542 >>, << 40981, 40981 >>, << 42232, 42237 >>, << 42508, 42508 >>,
    << 42607, 42610 >>, << 42612, 42621 >>, << 42623, 42623 >>, << 42652, 42655 >>, << 42736, 42737 >>, << 42752, 42785 >>, << 42864, 42864 >>,
    << 42888, 42890 >>, << 42994, 42996 >>, << 43000, 43001 >>, << 43010, 43010 >>, << 43014, 43014 >>, << 43019, 43019 >>, << 43045, 43046 >>,
    << 43052, 43052 >>, << 43204, 43205 >>, << 43232, 43249 >>, << 43263, 43263 >>, << 43302, 43309 >>, << 43335, 43345 >>, << 43392, 43394 >>,
    << 43443, 43443 >>, << 43446, 43449 >>, << 43452, 43453 >>, << 43471, 43471 >>, << 43493, 43494 >>, << 43561, 43566 >>, << 43569, 43570 >>,
    << 43573, 43574 >>, << 43587, 43587 >>, << 43596, 43596 >>, << 43632, 43632 >>, << 43644, 43644 >>, << 43696, 43696 >>, << 43698, 43700 >>,
    << 43703, 43704 >>, << 43710, 43711 >>, << 43713, 43713 >>, << 43741, 43741 >>, << 43756, 43757 >>, << 43763, 43764 >>, << 43766, 43766 >>,
    << 43867, 43871 >>, << 43881, 43883 >>, << 44005, 44005 >>, << 44008, 44008 >>, << 44013, 44013 >>, << 64286, 64286 >>, << 64434, 64450 >>,
    << 65024, 65039 >>, << 65043, 65043 >>, << 65056, 65071 >>, << 65106, 65106 >>, << 65109, 65109 >>, << 65279, 65279 >>, << 65287, 65287 >>,
    << 65294, 65294 >>, << 65306, 65306 >>, << 65342, 65342 >>, << 65344, 65344 >>, << 65392, 65392 >>, << 65438, 65439 >>, << 65507, 65507 >>,
    << 65529, 65531 >>, << 66045, 66045 >>, << 66272, 66272 >>, << 66422, 66426 >>, << 67456, 67461 >>, << 67463, 67504 >>, << 67506, 67514 >>,
    << 68097, 68099 >>, << 68101, 68102 >>, << 68108, 68111 >>, << 68152, 68154 >>, << 68159, 68159 >>, << 68325, 68326 >>, << 68900, 68903 >>,
    << 69291, 69292 >>, << 69446, 69456 >>, << 69506, 69509 >>, << 69633, 69633 >>, << 69688, 69702 >>, << 69744, 69744 >>, << 69747, 69748 >>,
    << 69759, 69761 >>, << 69811, 69814 >>, << 69817, 69818 >>, << 69821, 69821 >>, << 69826, 69826 >>, << 69837, 69837 >>, << 69888, 69890 >>,
    << 69927, 69931 >>, << 69933, 69940 >>, << 70003, 70003 >>, << 70016, 70017 >>, << 70070, 70078 >>, << 70089, 70092 >>, << 70095, 70095 >>,
    << 70191, 70193 >>, << 70196, 70196 >>, << 70198, 70199 >>, << 70206, 70206 >>, << 70367, 70367 >>, << 70371, 70378 >>, << 70400, 70401 >>,
    << 70459, 70460 >>, << 70464, 70464 >>, << 70502, 70508 >>, << 70512, 70516 >>, << 70712, 70719 >>, << 70722, 70724 >>, << 70726, 70726 >>,
    << 70750, 70750 >>, << 70835, 70840 >>, << 70842, 70842 >>, << 70847, 70848 >>, << 70850, 70851 >>, << 71090, 71093 >>, << 71100, 71101 >>,
    << 71103, 71104 >>, << 71132, 71133 >>, << 71219, 71226 >>, << 71229, 71229 >>, << 71231, 71232 >>, << 71339, 71339 >>, << 71341, 71341 >>,
    << 71344, 71349 >>, << 71351, 71351 >>, << 71453, 71455 >>, << 71458, 71461 >>, << 71463, 71467 >>, << 71727, 71735 >>, << 71737, 71738 >>,
    << 71995, 71996 >>, << 71998, 71998 >>, << 72003, 72003 >>, << 72148, 72151 >>, << 72154, 72155 >>, << 72160, 72160 >>, << 72193, 72202 >>,
    << 72243, 72248 >>, << 72251, 72254 >>, << 72263, 72263 >>, << 72273, 72278 >>, << 72281, 72283 >>, << 72330, 72342 >>, << 72344, 72345 >>,
    << 72752, 72758 >>, << 72760, 72765 >>, << 72767, 72767 >>, << 72850, 72871 >>, << 72874, 72880 >>, << 72882, 72883 >>, << 72885, 72886 >>,
    << 73009, 73014 >>, << 73018, 73018 >>, << 73020, 73021 >>, << 73023, 73029 >>, << 73031, 73031 >>, << 73104, 73105 >>, << 73109, 73109 >>,
    << 73111, 73111 >>, << 73459, 73460 >>, << 78896, 78904 >>, << 92912, 92916 >>, << 92976, 92982 >>, << 92992, 92995 >>, << 94031, 94031 >>,
    << 94095, 94111 >>, << 94176, 94177 >>, << 94179, 94180 >>, << 110576, 110579 >>, << 110581, 110587 >>, << 110589, 110590 >>, << 113821, 113822 >>,
    << 113824, 113827 >>, << 118528, 118573 >>, << 118576, 118598 >>, << 119143, 119145 >>, << 119155, 119170 >>, << 119173, 119179 >>, << 119210, 119213 >>,
    << 119362, 119364 >>, << 121344, 121398 >>, << 121403, 121452 >>, << 121461, 121461 >>, << 121476, 121476 >>, << 121499, 121503 >>, << 121505, 121519 >>,
    << 122880, 122886 >>, << 122888, 122904 >>, << 122907, 122913 >>, << 122915, 122916 >>, << 122918, 122922 >>, << 123184, 123197 >>, << 123566, 123566 >>,
    << 123628, 123631 >>, << 125136, 125142 >>, << 125252, 125259 >>, << 127995, 127999 >>, << 917505, 917505 >>, << 917536, 917631 >>, << 917760, 917999 >> >>

\* the cased characters among the others, as ranges << lo, hi >>
CasedRanges == <<
    << 65, 90 >>, << 97, 122 >>, << 170, 170 >>, << 181, 181 >>, << 186, 186 >>, << 192, 214 >>, << 216, 246 >>,
    << 248, 442 >>, << 444, 447 >>, << 452, 659 >>, << 661, 687 >>, << 880, 883 >>, << 886, 887 >>, << 891, 893 >>,
    << 895, 895 >>, << 902, 902 >>, << 904, 906 >>, << 908, 908 >>, << 910, 929 >>, << 931, 1013 >>, << 1015, 1153 >>,
    << 1162, 1327 >>, << 1329, 1366 >>, << 1376, 1416 >>, << 4256, 4293 >>, << 4295, 4295 >>, << 4301, 4301 >>, << 4304, 4346 >>,
    << 4349, 4351 >>, << 5024, 5109 >>, << 5112, 5117 >>, << 7296, 7304 >>, << 7312, 7354 >>, << 7357, 7359 >>, << 7424, 7467 >>,
    << 7531, 7543 >>, << 7545, 7578 >>, << 7680, 7957 >>, << 7960, 7965 >>, << 7968, 8005 >>, << 8008, 8013 >>, << 8016, 8023 >>,
    << 8025, 8025 >>, << 8027, 8027 >>, << 8029, 8029 >>, << 8031, 8061 >>, << 8064, 8116 >>, << 8118, 8124 >>, << 8126, 8126 >>,
    << 8130, 8132 >>, << 8134, 8140 >>, << 8144, 8147 >>, << 8150, 8155 >>, << 8160, 8172 >>, << 8178, 8180 >>, << 8182, 8188 >>,
    << 8450, 8450 >>, << 8455, 8455 >>, << 8458, 8467 >>, << 8469, 8469 >>, << 8473, 8477 >>, << 8484, 8484 >>, << 8486, 8486 >>,
    << 8488, 8488 >>, << 8490, 8493 >>, << 8495, 8500 >>, << 8505, 8505 >>, << 8508, 8511 >>, << 8517, 8521 >>, << 8526, 8526 >>,
    << 8544, 8575 >>, << 8579, 8580 >>, << 9398, 9449 >>, << 11264, 11387 >>, << 11390, 11492 >>, << 11499, 11502 >>, << 11506, 11507 >>,
    << 11520, 11557 >>, << 11559, 11559 >>, << 11565, 11565 >>, << 42560, 42605 >>, << 42624, 42651 >>, << 42786, 42863 >>, << 42865, 42887 >>,
    << 42891, 42894 >>, << 42896, 42954 >>, << 42960, 42961 >>, << 42963, 42963 >>, << 42965, 42969 >>, << 42997, 42998 >>, << 43002, 43002 >>,
    << 43824, 43866 >>, << 43872, 43880 >>, << 43888, 43967 >>, << 64256, 64262 >>, << 64275, 64279 >>, << 65313, 65338 >>, << 65345, 65370 >>,
    << 66560, 66639 >>, << 66736, 66771 >>, << 66776, 66811 >>, << 66928, 66938 >>, << 66940, 66954 >>, << 66956, 66962 >>, << 66964, 66965 >>,
    << 66967, 66977 >>, << 66979, 66993 >>, << 66995, 67001 >>, << 67003, 67004 >>, << 68736, 68786 >>, << 68800, 68850 >>, << 71840, 71903 >>,
    << 93760, 93823 >>, << 119808, 119892 >>, << 119894, 119964 >>, << 119966, 119967 >>, << 119970, 119970 >>, << 119973, 119974 >>, << 119977, 119980 >>,
    << 119982, 119993 >>, << 119995, 119995 >>, << 119997, 120003 >>, << 120005, 120069 >>, << 120071, 120074 >>, << 120077, 120084 >>, << 120086, 120092 >>,
    << 120094, 120121 >>, << 120123, 120126 >>, << 120128, 120132 >>, << 120134, 120134 >>, << 120138, 120144 >>, << 120146, 120485 >>, << 120488, 120512 >>,
    << 120514, 120538 >>, << 120540, 120570 >>, << 120572, 120596 >>, << 120598, 120628 >>, << 120630, 120654 >>, << 120656, 120686 >>, << 120688, 120712 >>,
    << 120714, 120744 >>, << 120746, 120770 >>, << 120772, 120779 >>, << 122624, 122633 >>, << 122635, 122654 >>, << 125184, 125251 >>, << 127280, 127305 >>,
    << 127312, 127337 >>, << 127344, 127369 >> >>

\* the capital sigma at position i of s ends a word: the nearest character
\* before it that is not case-ignorable is cased, and the nearest one after
\* it, if any, is not
FinalSigma(s, i) ==
    LET InRanges(c, rs) == \E k \in 1..Len(rs) : rs[k][1] <= c /\ c <= rs[k][2]
        CaseIgnorable(c) == InRanges(c, CaseIgnorableRanges)
        Cased(c) == InRanges(c, CasedRanges)
        before == { j \in 1..(i - 1) : ~CaseIgnorable(s[j]) }
        after == { j \in (i + 1)..Len(s) : ~CaseIgnorable(s[j]) }
    IN  /\ before # {}
        /\ Cased(s[CHOOSE j \in before : \A k \in before : k <= j])
        /\ after = {} \/ ~Cased(s[CHOOSE j \in after : \A k \in after : j <= k])

\* str.lower() on one character that lowers to one character
LowerChar(c) ==
    IF c < 65 THEN c
    ELSE IF c <= 90 THEN c + 32
    ELSE IF c < 128 THEN c
    ELSE IF \E k \in 1..Len(LowerRanges) :
               /\ LowerRanges[k][1] <= c
               /\ c <= LowerRanges[k][2]
               /\ (c - LowerRanges[k][1]) % LowerRanges[k][3] = 0
    THEN c + LowerRanges[CHOOSE k \in 1..Len(LowerRanges) :
                            /\ LowerRanges[k][1] <= c
                            /\ c <= LowerRanges[k][2]
                            /\ (c - LowerRanges[k][1]) % LowerRanges[k][3] = 0][4]
    ELSE c

\* str.lower()
Lower_keep(s) == s

\* U+0130 lowers to two characters, a capital sigma to the final sigma at
\* the end of a word
Lower(s) ==
    LET LowerAt(i) ==
            IF s[i] = 304 THEN << 105, 775 >>
            ELSE IF s[i] = 931 THEN (IF FinalSigma(s, i) THEN << 962 >> ELSE << 963 >>)
            ELSE << LowerChar(s[i]) >>
        RECURSIVE LowerFrom(_)
        LowerFrom(i) == IF i > Len(s) THEN << >> ELSE LowerAt(i) \o LowerFrom(i + 1)
    IN  LowerFrom(1)

\* s.split('.')[-1]: what follows the last full stop, s when it has none
LastPart(s) ==
    IF \E i \in 1..Len(s) : s[i] = Dot
    THEN LET last == CHOOSE i \in 1..Len(s) :
                        /\ s[i] = Dot
                        /\ \A j \in (i + 1)..Len(s) : s[j] # Dot
         IN  SubSeq(s, last + 1, Len(s))
    ELSE s

\* index.py:79: filename.lower().split('.')[-1] if '.' in filename else ''
file_ext(fn) ==
    IF \E i \in 1..Len(fn) : fn[i] = Dot THEN LastPart(Lower(fn)) ELSE << >>

\* the file names of the uploads: a.txt, r.PDF, d.docx, c.dxf, notes
FileNames == { << 97, 46, 116, 120, 116 >>,
               << 114, 46, 80, 68, 70 >>,
               << 100, 46, 100, 111, 99, 120 >>,
               << 99, 46, 100, 120, 102 >>,
               << 110, 111, 116, 101, 115 >> }

\* "pdf"
ExtPdf == << 112, 100, 102 >>

\* "docx"
ExtDocx == << 100, 111, 99, 120 >>

\* "doc"
ExtDoc == << 100, 111, 99 >>

\* "dxf"
ExtDxf == << 100, 120, 102 >>

\* ------------------------------------------------------------------------
\* Bearer tokens
\* ------------------------------------------------------------------------

\* a token: valid says that jwt.decode accepts it (signature and expiry), sub
\* is the "sub" of its payload, "" when the payload has none
Tokens == { [valid |-> TRUE, sub |-> "alice"],
            [valid |-> TRUE, sub |-> ""],
            [valid |-> FALSE, sub |-> "alice"] }

\* verify_token: ok is FALSE where it raises HTTPException(401)
verify_token_unsigned(tok) == [ok |-> tok.sub # "", username |-> tok.sub]

verify_token(tok) == [ok |-> tok.valid /\ tok.sub # "", username |-> tok.sub]

\* ------------------------------------------------------------------------
\* extract_text_from_file (src/api/index.py:77-159)
\* ------------------------------------------------------------------------

\* the characters str.strip() removes
Whitespace == {9, 10, 11, 12, 13, 28, 29, 30, 31, 32, 133, 160, 5760,
               8192, 8193, 8194, 8195, 8196, 8197, 8198, 8199, 8200, 8201, 8202,
               8232, 8233, 8239, 8287, 12288}

\* s.strip() is not empty
NonBlank(s) == \E i \in 1..Len(s) : s[i] \notin Whitespace

\* s.strip()
Strip(s) ==
    IF ~NonBlank(s) THEN << >>
    ELSE LET kept == { i \in 1..Len(s) : s[i] \notin Whitespace }
             first == CHOOSE i \in kept : \A j \in kept : i <= j
             last == CHOOSE i \in kept : \A j \in kept : j <= i
         IN  SubSeq(s, first, last)

NonEmpty_any(s) == TRUE

\* index.py:90: if text
NonEmpty(s) == s # << >>

\* the texts a parser finds in one page of a PDF
PartTexts == { << >>, << 65 >>, << 32 >> }

\* no parser is called for the file, or the parser raises: ok is FALSE
NoParse == [ok |-> FALSE, parts |-> << >>, tables |-> << >>, version |-> << >>,
            layers |-> << >>, entities |-> << >>]

\* what python-docx makes of the bytes: parts are the texts of the
\* paragraphs, tables the tables, each the sequence of its rows, a row the
\* sequence of the texts of its cells
DocxRead(paras, tbls) == [NoParse EXCEPT !.ok = TRUE, !.parts = paras, !.tables = tbls]

\* what ezdxf makes of the bytes: doc.dxfversion, the names of doc.layers,
\* and the entities of the modelspace, each with its dxftype() and the text
\* the report takes from it (dxf.text of a TEXT, text of an MTEXT, dxf.name
\* of an INSERT)
DxfRead(v, ls, es) ==
    [NoParse EXCEPT !.ok = TRUE, !.version = v, !.layers = ls, !.entities = es]

\* an entity of the modelspace: dxftype is "TEXT", "MTEXT", "INSERT" or the
\* name of another type, as code points
Entity(t, x) == [dxftype |-> t, text |-> x]

\* the PDF files, as pypdf reads them: parts are the texts of the pages,
\* every sequence of up to MaxParts pages
PdfResults ==
    { NoParse } \cup
    { [NoParse EXCEPT !.ok = TRUE, !.parts = ps] : ps \in UNION { [1..n -> PartTexts] : n \in 0..MaxParts } }

\* the Word documents: paragraphs that are empty, blank (a space, U+2003) or
\* not, and tables with cells to strip, empty cells and rows without text
DocxResults ==
    { NoParse,
      DocxRead(<< >>, << >>),
      DocxRead(<< << 65 >> >>, << >>),
      DocxRead(<< << >>, << 32 >>, << 65 >>, << 8195 >>, << 66, 32 >> >>, << >>),
      DocxRead(<< << 65 >> >>,
               << << << << 120 >>, << 32, 121, 32 >> >>, << << >>, << 32 >> >> >> >>),
      DocxRead(<< >>,
               << << << << 65 >> >> >>,
                  << << << 32 >>, << 66 >> >>,
                     << << 67 >>, << 68 >>, << 12288 >> >> >> >>),
      DocxRead(<< << 32 >> >>, << << << >> >> >>) }

\* the drawings: empty, one entity of each reported type, entities of
\* several types in any order, an entity type the report only counts, and
\* a count of two digits
DxfResults ==
    LET DxfVersion == << 65, 67, 49, 48, 50, 55 >>    \* "AC1027"
        LayerZero == << 48 >>                         \* "0"
        LayerWalls == << 87, 97, 108, 108, 115 >>     \* "Walls"
        TypeText == << 84, 69, 88, 84 >>              \* "TEXT"
        TypeMText == << 77, 84, 69, 88, 84 >>         \* "MTEXT"
        TypeInsert == << 73, 78, 83, 69, 82, 84 >>    \* "INSERT"
        TypeLine == << 76, 73, 78, 69 >>              \* "LINE"
    IN
    { NoParse,
      DxfRead(<< >>, << >>, << >>),
      DxfRead(<< >>, << >>, << Entity(TypeText, << 65 >>) >>),
      DxfRead(<< >>, << >>, << Entity(TypeMText, << 65 >>) >>),
      DxfRead(DxfVersion, << LayerZero >>, << Entity(TypeInsert, << 65 >>) >>),
      DxfRead(DxfVersion, << LayerZero, LayerWalls >>,
              << Entity(TypeText, << 65 >>), Entity(TypeLine, << >>),
                 Entity(TypeMText, << 66 >>), Entity(TypeInsert, << 67 >>),
                 Entity(TypeLine, << >>), Entity(TypeText, << >>) >>),
      DxfRead(DxfVersion, << LayerZero >>, [i \in 1..12 |-> Entity(TypeLine, << >>)]) }

Extracted(t) == [ok |-> TRUE, status |-> 0, detail |-> "", text |-> t]

ExtractError(d) == [ok |-> FALSE, status |-> 400, detail |-> d, text |-> << >>]

\* the branch of extract_text_from_file a file name selects
extract_branch(fn) ==
    LET ext == file_ext(fn)
    IN  IF ext = ExtPdf THEN "pdf"
        ELSE IF ext \in {ExtDocx, ExtDoc} THEN "docx"
        ELSE IF ext \in {ExtDxf} THEN "dxf"
        ELSE "text"

\* lines 151-159: the plain text branch
extract_plain(bs) ==
    IF Utf8Decode(bs).ok THEN Extracted(Utf8Decode(bs).text)
    ELSE IF Latin1Decode(bs).ok THEN Extracted(Latin1Decode(bs).text)
    ELSE ExtractError("Unable to read file. Supported formats: PDF, DOCX, DXF, TXT, MD, JSON, CSV, and code files.")

\* index.py:109: ' | '.join(cell.text.strip() for cell in row.cells if
\* cell.text.strip())
row_text(row) ==
    Join([i \in 1..Len(SelectSeq(row, NonBlank)) |-> Strip(SelectSeq(row, NonBlank)[i])],
         << 32, 124, 32 >>)

\* index.py:102-111: text_parts of a Word document
docx_parts(doc) ==
    LET RECURSIVE table_rows(_)
        \* the rows of the tables, table after table
        table_rows(tbls) ==
            IF tbls = << >> THEN << >> ELSE Head(tbls) \o table_rows(Tail(tbls))
        rows == table_rows(doc.tables)
    IN  SelectSeq(doc.parts, NonBlank)
        \o SelectSeq([i \in 1..Len(rows) |-> row_text(rows[i])], NonEmpty)

\* index.py:141-144: entity_counts, the types in the order of their first
\* entity, each with the number of its entities
RECURSIVE entity_counts(_, _)
entity_counts(es, acc) ==
    IF es = << >> THEN acc
    ELSE LET t == Head(es).dxftype
             at == { k \in 1..Len(acc) : acc[k][1] = t }
         IN  IF at = {}
             THEN entity_counts(Tail(es), Append(acc, << t, 1 >>))
             ELSE entity_counts(Tail(es),
                                [acc EXCEPT ![CHOOSE k \in at : TRUE] = << t, @[2] + 1 >>])

\* str(entity_counts): {'TEXT': 1, 'LINE': 2}; the types are names of ASCII
\* letters and digits, which repr puts between single quotes as they are
dict_str(items) ==
    LET RECURSIVE Decimal(_)
        \* str(n) for n >= 0
        Decimal(n) ==
            IF n < 10 THEN << 48 + n >> ELSE Decimal(n \div 10) \o << 48 + (n % 10) >>
    IN
    << 123 >>
    \o Join([k \in 1..Len(items) |->
                << 39 >> \o items[k][1] \o << 39, 58, 32 >> \o Decimal(items[k][2])],
            << 44, 32 >>)
    \o << 125 >>

\* index.py:133-138: the line of the report for an entity, none for an
\* entity that is no TEXT, MTEXT or INSERT
entity_lines(e) ==
    IF e.dxftype = << 84, 69, 88, 84 >> THEN << << 84, 101, 120, 116, 58, 32 >> \o e.text >>
    ELSE IF e.dxftype = << 77, 84, 69, 88, 84 >> THEN << << 77, 84, 101, 120, 116, 58, 32 >> \o e.text >>
    ELSE IF e.dxftype = << 73, 78, 83, 69, 82, 84 >> THEN << << 66, 108, 111, 99, 107, 58, 32 >> \o e.text >>
    ELSE << >>

\* index.py:122-145: text_parts of a drawing: "DXF File: ", "DXF Version: ",
\* "Layers: " with the layer names joined by ", ", the lines of the
\* entities, "Entity counts: "
dxf_report(fn, d) ==
    LET RECURSIVE entities_report(_)
        entities_report(es) ==
            IF es = << >> THEN << >>
            ELSE entity_lines(Head(es)) \o entities_report(Tail(es))
    IN
    << << 68, 88, 70, 32, 70, 105, 108, 101, 58, 32 >> \o fn,
       << 68, 88, 70, 32, 86, 101, 114, 115, 105, 111, 110, 58, 32 >> \o d.version,
       << 76, 97, 121, 101, 114, 115, 58, 32 >> \o Join(d.layers, << 44, 32 >>) >>
    \o entities_report(d.entities)
    \o << << 69, 110, 116, 105, 116, 121, 32, 99, 111, 117, 110, 116, 115, 58, 32 >>
            \o dict_str(entity_counts(d.entities, << >>)) >>

\* index.py:83, 98, 118: PDF_SUPPORT, DOCX_SUPPORT, DXF_SUPPORT, the flag of
\* the parser of a branch among the imported parsers sup
supported_always(branch, sup) == TRUE

supported(branch, sup) == branch \in sup

\* extract_text_from_file(content, filename), with the imported parsers sup
\* and the parser's result parsed
\* (the detail of a parse failure is the part before str(e): the message of
\* the parser's exception follows it in the code)
extract_text_from_file(bs, fn, sup, parsed) ==
    LET branch == extract_branch(fn)
    IN  IF branch = "pdf"
        THEN IF ~supported("pdf", sup) THEN ExtractError("PDF support not available")
             ELSE IF ~parsed.ok THEN ExtractError("Failed to parse PDF: ")
             ELSE Extracted(Join(SelectSeq(parsed.parts, NonEmpty), NewLine))
        ELSE IF branch = "docx"
        THEN IF ~supported("docx", sup)
             THEN ExtractError("Word document support not available")
             ELSE IF ~parsed.ok THEN ExtractError("Failed to parse Word document: ")
             ELSE Extracted(Join(docx_parts(parsed), NewLine))
        ELSE IF branch = "dxf"
        THEN IF ~supported("dxf", sup) THEN ExtractError("DXF support not available")
             ELSE IF ~parsed.ok THEN ExtractError("Failed to parse DXF file: ")
             ELSE Extracted(Join(dxf_report(fn, parsed), NewLine))
        ELSE extract_plain(bs)

\* the parser results the environment may give for a file: a parser runs
\* only in the branch of an imported parser
ParseResultsFor(fn, sup) ==
    LET branch == extract_branch(fn)
    IN  IF branch \notin sup THEN { NoParse }
        ELSE IF branch = "pdf" THEN PdfResults
        ELSE IF branch = "docx" THEN DocxResults
        ELSE DxfResults

\* ------------------------------------------------------------------------
\* Prompts: the sequence of the segments of the f-string
\* ------------------------------------------------------------------------

Lit(s) == [seg |-> "lit", str |-> s, val |-> << >>]

SegInstructions(i) == [seg |-> "instructions", str |-> i, val |-> << >>]

SegFilename(fn) == [seg |-> "filename", str |-> "", val |-> fn]

SegDocument(t) == [seg |-> "document", str |-> "", val |-> t]

SegCount(n) == [seg |-> "count", str |-> "", val |-> << n >>]

\* auth.py:211, 225, 280: the chunk the prompt embeds, chunks[0]
embedded_chunk_last(cks) == cks[Len(cks)]

embedded_chunk(cks) == cks[1]

\* auth.py:205-214 and 274-283
prompt_single(ins, fn, cks) ==
    << Lit("You are an expert document analyst. Analyze the following document according to the user's instructions. Be thorough and detailed.\n\nINSTRUCTIONS: "),
       SegInstructions(ins),
       Lit("\n\nDOCUMENT ("),
       SegFilename(fn),
       Lit("):\n---\n"),
       SegDocument(embedded_chunk(cks)),
       Lit("\n---\n\nProvide your analysis based on the instructions above.") >>

\* auth.py:217-228
prompt_multi(ins, fn, cks) ==
    << Lit("You are an expert document analyst. This is a large document split into "),
       SegCount(Len(cks)),
       Lit(" parts. Analyze it according to the user's instructions.\n\nINSTRUCTIONS: "),
       SegInstructions(ins),
       Lit("\n\nDOCUMENT ("),
       SegFilename(fn),
       Lit(") - Part 1 of "),
       SegCount(Len(cks)),
       Lit(":\n---\n"),
       SegDocument(embedded_chunk(cks)),
       Lit("\n---\n\nNote: This document continues. Focus on extracting key information relevant to the instructions.\n\nProvide your analysis based on the instructions above.") >>

\* auth.py:203-228
analyze_prompt(ins, fn, cks) ==
    IF Len(cks) = 1 THEN prompt_single(ins, fn, cks) ELSE prompt_multi(ins, fn, cks)

\* index.py:1260-1269
mem_prompt_filename_first(ins, fn, t) ==
    << Lit("DOCUMENT ("), SegFilename(fn), Lit(")\n\nINSTRUCTIONS: "),
       SegInstructions(ins), Lit("\n---\n"), SegDocument(PyTake(t, TruncateTo)) >>

mem_prompt(ins, fn, t) ==
    << Lit("You are an expert document analyst. Analyze the following document according to the user's instructions.\n\nINSTRUCTIONS: "),
       SegInstructions(ins),
       Lit("\n\nDOCUMENT ("),
       SegFilename(fn),
       Lit("):\n---\n"),
       SegDocument(PyTake(t, TruncateTo)),
       Lit("\n---\n\nProvide your analysis.") >>

\* the JSON body of the generate request
GenerateRequest(mdl, p, stream) == [model |-> mdl, prompt |-> p, stream |-> stream]

\* ------------------------------------------------------------------------
\* JSON values of the inference service, and the events relayed
\* ------------------------------------------------------------------------

\* a JSON object by the keys it has among "response" and "done"; a key it
\* does not have holds "" or FALSE here
Obj(keys, r, d) == [kind |-> "object", keys |-> keys, response |-> r, done |-> d]

\* text that json.loads / response.json() rejects
NotJson == [kind |-> "malformed", keys |-> {}, response |-> "", done |-> FALSE]

\* JSON that is no object (null, a number, a list)
NonObject == [kind |-> "nonobject", keys |-> {}, response |-> "", done |-> FALSE]

\* an empty line of a streamed body
EmptyLine == [kind |-> "empty", keys |-> {}, response |-> "", done |-> FALSE]

NoBody == [kind |-> "none", keys |-> {}, response |-> "", done |-> FALSE]

\* the lines the inference service may send in a streamed response
Lines == { EmptyLine, NotJson, NonObject,
           Obj({"response"}, "a", FALSE),
           Obj({"response"}, "b", FALSE),
           Obj({"done"}, "", TRUE),
           Obj({"response", "done"}, "", TRUE),
           Obj({"response", "done"}, "a", FALSE) }

\* the bodies the inference service may answer a blocking call with
Bodies == { NotJson, NonObject,
            Obj({"response"}, "ok", FALSE),
            Obj({"response"}, "", FALSE),
            Obj({}, "", FALSE) }

\* the HTTP statuses the inference service may answer with
UpstreamStatuses == {200, 500}

\* what becomes of client.post(...): the reply, httpx.TimeoutException, or
\* another exception of the transport
NoOutcome == [kind |-> "none", http |-> 0, body |-> NoBody]

Timeout == [kind |-> "timeout", http |-> 0, body |-> NoBody]

TransportError == [kind |-> "transport", http |-> 0, body |-> NoBody]

Reply(h, b) == [kind |-> "reply", http |-> h, body |-> b]

\* result.get("response", default)
get_response_falsy(v, default) ==
    IF "response" \in v.keys /\ v.response # "" THEN v.response ELSE default

get_response(v, default) == IF "response" \in v.keys THEN v.response ELSE default

\* f"data: {json.dumps({'text': fragment})}\n\n"
TextEvent(f) == [key |-> "text", value |-> f]

\* f"data: {json.dumps({'done': True})}\n\n"
DoneEvent == [key |-> "done", value |-> TRUE]

\* auth.py:296-299: what the generator yields for a decoded object
object_events(v) ==
    (IF "response" \in v.keys THEN << TextEvent(v.response) >> ELSE << >>)
    \o (IF "done" \in v.keys /\ v.done THEN << DoneEvent >> ELSE << >>)

\* the fallback of "analysis": auth.py:246, index.py:1285
Fallback(ep) == IF ep = "mem_analyze" THEN "No response from AI" ELSE "No response"

NoResult == [none |-> TRUE]

\* auth.py:243-249
analyze_result(fn, ins, mdl, cks, v) ==
    [filename |-> fn, instructions |-> ins,
     analysis |-> get_response(v, Fallback("analyze")),
     model |-> mdl, chunks_processed |-> Len(cks)]

\* index.py:1282-1287
mem_result(fn, ins, mdl, v) ==
    [filename |-> fn, instructions |-> ins,
     analysis |-> get_response(v, Fallback("mem_analyze")),
     model |-> mdl]

\* ------------------------------------------------------------------------
\* chunk_text (src/users/routers/auth.py:87-99)
\* ------------------------------------------------------------------------

VARIABLES
    text,        \* argument text
    chunk_size,  \* argument chunk_size
    overlap,     \* argument overlap
    start,       \* local start
    chunks,      \* local chunks (the result once pc = "done")
    pc           \* "call", "loop", "done"

chunkVars == << text, chunk_size, overlap, start, chunks, pc >>

\* one analysis request
VARIABLES
    endpoint,      \* "analyze", "analyze_stream" (auth.py) or "mem_analyze" (index.py)
    token,         \* the bearer token of the request
    content,       \* the bytes of the uploaded file
    filename,      \* file.filename, a sequence of characters
    instructions,  \* form field instructions
    model,         \* form field model
    support,       \* index.py: the parsers that were imported (PDF_SUPPORT, ...)
    hpc,           \* position of the handler; generate() is over at "closed"
                   \* (returned), "aborted" (an exception left it) and
                   \* "cancelled" (closed or cancelled by its consumer)
    status,        \* HTTP status sent to the caller, 0 while none is sent
    detail,        \* detail of the HTTPException raised, "" when none
    uncaught,      \* exception that left the handler or the generator uncaught
    result,        \* the JSON body returned by a blocking endpoint
    text_content,  \* local text_content
    req_chunks,    \* local chunks
    prompt,        \* local prompt
    sent,          \* generate requests sent to the inference service
    upstream,      \* what the inference service did with the blocking call
    received,      \* lines read from the streamed response
    events         \* events the generator has yielded to the caller

reqVars == << endpoint, token, content, filename, instructions, model, support,
              hpc, status, detail, uncaught, result, text_content, req_chunks,
              prompt, sent, upstream, received, events >>

\* one call of extract_text_from_file (index.py:77-159)
VARIABLES
    parser_result, \* what the parser called for the file returned, NoParse when none was
    ext_branch     \* the branch of extract_text_from_file taken, "none" before the call

extractVars == << parser_result, ext_branch >>

\* the accounts of the two variants, each given the same calls
VARIABLES
    users_db,      \* index.py:40: the accounts, in the order of their registration
    reset_tokens,  \* index.py:41: the reset tokens issued and not yet used
    users_table,   \* auth.py:17-24: the rows of table users, in the order of their ids
    now,           \* datetime.utcnow(), in hours
    issued,        \* the number of reset tokens secrets.token_urlsafe has made
    calls,         \* the number of account calls made
    mem_out,       \* what the in-memory variant answered to the last call
    db_out,        \* what the relational variant answered to the last call
    consumed,      \* per variant, the tokens a reset-password call succeeded with
    reset_to       \* per variant and username, its last successful reset

acctVars == << users_db, reset_tokens, users_table, now, issued, calls, mem_out,
               db_out, consumed, reset_to >>

\* analysis requests in flight together
VARIABLES
    reqs           \* the locals of each handler invocation, by request

concVars == << reqs >>

\* the caller of the streaming endpoint
VARIABLES
    client,        \* "connected", or "gone" once it has disconnected
    pending        \* the exception raised inside generate() that has not left
                   \* it yet, "none" when there is none

streamVars == << client, pending >>

otherVars == << acctVars, concVars, streamVars >>

vars == << chunkVars, reqVars, extractVars, otherVars >>

\* line 89: the text fits in one chunk
fits_one_chunk_off(t, cs) == Len(t) < cs

fits_one_chunk(t, cs) == Len(t) <= cs

\* line 95: end = start + chunk_size
chunk_end(st, cs) == st + cs

\* line 96: chunk = text[start:end]
chunk_at_short(t, st, cs) == PySlice(t, st, chunk_end(st, cs) - 1)

chunk_at(t, st, cs) == PySlice(t, st, chunk_end(st, cs))

\* line 98: start = end - overlap
next_start_gap(st, cs, ov) == chunk_end(st, cs) - ov + 1

next_start(st, cs, ov) == chunk_end(st, cs) - ov

\* lines 94-98 as a function, for an overlap below chunk_size (the loop ends)
RECURSIVE chunk_loop(_, _, _, _, _)
chunk_loop(t, cs, ov, st, acc) ==
    IF st < Len(t)
    THEN chunk_loop(t, cs, ov, next_start(st, cs, ov), Append(acc, chunk_at(t, st, cs)))
    ELSE acc

\* chunk_text as a function, for an overlap below chunk_size
chunk_text(t, cs, ov) ==
    IF fits_one_chunk(t, cs) THEN << t >> ELSE chunk_loop(t, cs, ov, 0, << >>)

\* no account call has been made
NoCall == [op |-> "none", username |-> "", email |-> "", password |-> "",
           token |-> << >>, status |-> 0, detail |-> ""]

\* no account exists, no analysis requests are in flight together
OtherIdle ==
    /\ users_db = << >>
    /\ reset_tokens = {}
    /\ users_table = << >>
    /\ now = 0
    /\ issued = 0
    /\ calls = 0
    /\ mem_out = NoCall
    /\ db_out = NoCall
    /\ consumed = [mem |-> {}, db |-> {}]
    /\ reset_to = [mem |-> {}, db |-> {}]
    /\ reqs = << >>
    /\ client = "connected"
    /\ pending = "none"

\* extract_text_from_file is not called
ExtractIdle ==
    /\ parser_result = NoParse
    /\ ext_branch = "none"

\* no analysis request is handled
RequestIdle ==
    /\ endpoint = "none"
    /\ token = [valid |-> FALSE, sub |-> ""]
    /\ content = << >>
    /\ filename = << >>
    /\ instructions = ""
    /\ model = ""
    /\ support = {}
    /\ hpc = "idle"
    /\ status = 0
    /\ detail = ""
    /\ uncaught = "none"
    /\ result = NoResult
    /\ text_content = << >>
    /\ req_chunks = << >>
    /\ prompt = << >>
    /\ sent = << >>
    /\ upstream = NoOutcome
    /\ received = << >>
    /\ events = << >>

\* chunk_text is not followed step by step
ChunkIdle ==
    /\ text = << >>
    /\ chunk_size = 1
    /\ overlap = 0
    /\ start = 0
    /\ chunks = << >>
    /\ pc = "idle"

InitChunk ==
    /\ RequestIdle
    /\ ExtractIdle
    /\ OtherIdle
    /\ text \in Texts
    /\ chunk_size \in 1..MaxChunkSize
    /\ overlap \in 0..MaxOverlap
    /\ start = 0
    /\ chunks = << >>
    /\ pc = "call"

\* lines 89-93
ChunkEnter ==
    /\ pc = "call"
    /\ IF fits_one_chunk(text, chunk_size)
       THEN /\ chunks' = << text >>
            /\ pc' = "done"
       ELSE /\ chunks' = << >>
            /\ pc' = "loop"
    /\ start' = 0
    /\ UNCHANGED << text, chunk_size, overlap >>
    /\ UNCHANGED reqVars
    /\ UNCHANGED otherVars
    /\ UNCHANGED extractVars

\* lines 94-98: one iteration of the while loop
ChunkIter ==
    /\ pc = "loop"
    /\ start < Len(text)
    /\ Len(chunks) < MaxIter
    /\ chunks' = Append(chunks, chunk_at(text, start, chunk_size))
    /\ start' = next_start(start, chunk_size, overlap)
    /\ UNCHANGED << text, chunk_size, overlap, pc >>
    /\ UNCHANGED reqVars
    /\ UNCHANGED otherVars
    /\ UNCHANGED extractVars

\* lines 94, 99: the loop condition fails, return chunks
ChunkReturn ==
    /\ pc = "loop"
    /\ ~(start < Len(text))
    /\ pc' = "done"
    /\ UNCHANGED << text, chunk_size, overlap, start, chunks >>
    /\ UNCHANGED reqVars
    /\ UNCHANGED otherVars
    /\ UNCHANGED extractVars

NextChunk == ChunkEnter \/ ChunkIter \/ ChunkReturn

SpecChunk == InitChunk /\ [][NextChunk]_vars

\* a call of chunk_text runs on: no await, no I/O, nothing to wait for
SpecChunkRuns == SpecChunk /\ WF_vars(NextChunk)

\* ------------------------------------------------------------------------
\* The analysis endpoints
\*   "analyze"         src/users/routers/auth.py:182-249
\*   "analyze_stream"  src/users/routers/auth.py:255-307
\*   "mem_analyze"     src/api/index.py:1248-1287
\* ------------------------------------------------------------------------

Endpoints == {"analyze", "analyze_stream", "mem_analyze"}

Blocking == {"analyze", "mem_analyze"}

Instructions == {"Summarize"}

Models == {"mistral:latest"}

\* the optional parsers of index.py (lines 15-31)
Parsers == {"pdf", "docx", "dxf"}

\* auth.py:232-236, 287-291; index.py:1273-1277: the one call of client.post
\* or client.stream of a request: log is the requests the inference service
\* has been sent
post_generate_again(log, req) == Append(Append(log, req), req)

post_generate(log, req) == Append(log, req)

Init ==
    /\ ChunkIdle
    /\ ExtractIdle
    /\ OtherIdle
    /\ endpoint \in Endpoints
    /\ token \in Tokens
    /\ content \in Contents
    /\ filename \in FileNames
    /\ instructions \in Instructions
    /\ model \in Models
    /\ support \in (IF endpoint = "mem_analyze" THEN SUBSET Parsers ELSE { {} })
    /\ hpc = "recv"
    /\ status = 0
    /\ detail = ""
    /\ uncaught = "none"
    /\ result = NoResult
    /\ text_content = << >>
    /\ req_chunks = << >>
    /\ prompt = << >>
    /\ sent = << >>
    /\ upstream = NoOutcome
    /\ received = << >>
    /\ events = << >>

\* a request that uploads a plain text file, short (under any plain text
\* name) or long (as "a.txt")
InitLong ==
    /\ ChunkIdle
    /\ ExtractIdle
    /\ OtherIdle
    /\ endpoint \in Endpoints
    /\ token \in Tokens
    /\ content \in Contents \cup LongContents
    /\ filename \in (IF content \in LongContents THEN { << 97, 46, 116, 120, 116 >> }
                     ELSE { fn \in FileNames : extract_branch(fn) = "text" })
    /\ instructions \in Instructions
    /\ model \in Models
    /\ support \in (IF endpoint = "mem_analyze" THEN SUBSET Parsers ELSE { {} })
    /\ hpc = "recv"
    /\ status = 0
    /\ detail = ""
    /\ uncaught = "none"
    /\ result = NoResult
    /\ text_content = << >>
    /\ req_chunks = << >>
    /\ prompt = << >>
    /\ sent = << >>
    /\ upstream = NoOutcome
    /\ received = << >>
    /\ events = << >>

\* the handler raises HTTPException(code, d)
Raise(code, d) ==
    /\ status' = code
    /\ detail' = d
    /\ hpc' = "done"

\* auth.py:191, 264; index.py:1255: verify_token(token)
VerifyToken ==
    /\ hpc = "recv"
    /\ IF verify_token(token).ok
       THEN /\ hpc' = "read"
            /\ UNCHANGED << status, detail >>
       ELSE Raise(401, "Invalid token")
    /\ UNCHANGED << endpoint, token, content, filename, instructions, model, support,
                    uncaught, result, text_content, req_chunks, prompt, sent,
                    upstream, received, events >>
    /\ UNCHANGED chunkVars
    /\ UNCHANGED otherVars
    /\ UNCHANGED extractVars

\* auth.py:193-236: read and decode the file, chunk it, build the prompt and
\* post the generate request
AnalyzePrepare ==
    /\ hpc = "read"
    /\ endpoint = "analyze"
    /\ LET d == Utf8Decode(content)
           cks == chunk_text(d.text, AnalyzeChunkSize, DefaultOverlap)
           p == analyze_prompt(instructions, filename, cks)
       IN  IF ~d.ok
           THEN /\ Raise(400, "File must be text-based")
                /\ UNCHANGED << text_content, req_chunks, prompt, sent >>
           ELSE /\ text_content' = d.text
                /\ req_chunks' = cks
                /\ prompt' = p
                /\ sent' = post_generate(sent, GenerateRequest(model, p, FALSE))
                /\ hpc' = "await"
                /\ UNCHANGED << status, detail >>
    /\ UNCHANGED << endpoint, token, content, filename, instructions, model, support,
                    uncaught, result, upstream, received, events >>
    /\ UNCHANGED chunkVars
    /\ UNCHANGED otherVars
    /\ UNCHANGED extractVars

\* auth.py:266-307: read and decode the file, chunk it, build the prompt and
\* return the StreamingResponse over generate()
StreamPrepare ==
    /\ hpc = "read"
    /\ endpoint = "analyze_stream"
    /\ LET d == Utf8Decode(content)
           cks == chunk_text(d.text, AnalyzeChunkSize, DefaultOverlap)
       IN  IF ~d.ok
           THEN /\ Raise(400, "File must be text-based")
                /\ UNCHANGED << text_content, req_chunks, prompt >>
           ELSE /\ text_content' = d.text
                /\ req_chunks' = cks
                /\ prompt' = prompt_single(instructions, filename, cks)
                /\ status' = 200
                /\ hpc' = "gen"
                /\ UNCHANGED detail
    /\ UNCHANGED << endpoint, token, content, filename, instructions, model, support,
                    uncaught, result, sent, upstream, received, events >>
    /\ UNCHANGED chunkVars
    /\ UNCHANGED otherVars
    /\ UNCHANGED extractVars

\* index.py:1257-1277: read the file, extract its text, build the prompt and
\* post the generate request
MemPrepare ==
    /\ hpc = "read"
    /\ endpoint = "mem_analyze"
    /\ ext_branch' = extract_branch(filename)
    /\ \E parsed \in ParseResultsFor(filename, support) :
         LET x == extract_text_from_file(content, filename, support, parsed)
             p == mem_prompt(instructions, filename, x.text)
         IN  /\ parser_result' = parsed
             /\ IF ~x.ok
                THEN /\ Raise(x.status, x.detail)
                     /\ UNCHANGED << text_content, prompt, sent >>
                ELSE /\ text_content' = x.text
                     /\ prompt' = p
                     /\ sent' = post_generate(sent, GenerateRequest(model, p, FALSE))
                     /\ hpc' = "await"
                     /\ UNCHANGED << status, detail >>
    /\ UNCHANGED << endpoint, token, content, filename, instructions, model, support,
                    uncaught, result, req_chunks, upstream, received, events >>
    /\ UNCHANGED chunkVars
    /\ UNCHANGED otherVars

\* the status an endpoint answers a timeout of client.post with:
\* auth.py:238-239; index.py:1279-1280 has no handler of its own for it
timeout_status(ep) == IF ep = "analyze" THEN 504 ELSE 500

\* auth.py:238-239, index.py:1279-1280: client.post raises httpx.TimeoutException
PostTimeout ==
    /\ hpc = "await"
    /\ upstream' = Timeout
    /\ Raise(timeout_status(endpoint),
             IF endpoint = "analyze" THEN "AI model timeout - try a shorter document"
             ELSE "AI service error")
    /\ UNCHANGED << endpoint, token, content, filename, instructions, model, support,
                    uncaught, result, text_content, req_chunks, prompt, sent,
                    received, events >>
    /\ UNCHANGED chunkVars
    /\ UNCHANGED otherVars
    /\ UNCHANGED extractVars

\* auth.py:240-241, index.py:1279-1280: client.post raises another exception
PostError ==
    /\ hpc = "await"
    /\ upstream' = TransportError
    /\ Raise(500, IF endpoint = "analyze" THEN "AI error" ELSE "AI service error")
    /\ UNCHANGED << endpoint, token, content, filename, instructions, model, support,
                    uncaught, result, text_content, req_chunks, prompt, sent,
                    received, events >>
    /\ UNCHANGED chunkVars
    /\ UNCHANGED otherVars
    /\ UNCHANGED extractVars

\* auth.py:237-249, index.py:1278-1287: the inference service answers; its
\* status is not read
PostReply ==
    /\ hpc = "await"
    /\ \E h \in UpstreamStatuses, b \in Bodies :
         /\ upstream' = Reply(h, b)
         /\ IF b.kind = "malformed"
            THEN \* response.json() raises inside the try
                 /\ Raise(500, IF endpoint = "analyze" THEN "AI error"
                               ELSE "AI service error")
                 /\ UNCHANGED << uncaught, result >>
            ELSE IF b.kind = "nonobject"
            THEN \* result.get raises AttributeError after the try
                 /\ uncaught' = "AttributeError"
                 /\ Raise(500, "Internal Server Error")
                 /\ UNCHANGED result
            ELSE /\ result' = IF endpoint = "analyze"
                              THEN analyze_result(filename, instructions, model,
                                                  req_chunks, b)
                              ELSE mem_result(filename, instructions, model, b)
                 /\ status' = 200
                 /\ hpc' = "done"
                 /\ UNCHANGED << detail, uncaught >>
    /\ UNCHANGED << endpoint, token, content, filename, instructions, model, support,
                    text_content, req_chunks, prompt, sent, received, events >>
    /\ UNCHANGED chunkVars
    /\ UNCHANGED otherVars
    /\ UNCHANGED extractVars

\* auth.py:287-291: client.stream(...) sends the request and waits for the
\* response to open
GenSend ==
    /\ hpc = "gen"
    /\ sent' = post_generate(sent, GenerateRequest(model, prompt, TRUE))
    /\ hpc' = "opening"
    /\ UNCHANGED << endpoint, token, content, filename, instructions, model, support,
                    status, detail, uncaught, result, text_content, req_chunks,
                    prompt, upstream, received, events >>
    /\ UNCHANGED chunkVars
    /\ UNCHANGED otherVars
    /\ UNCHANGED extractVars

\* auth.py:291-292: the response opens; generate() waits for its first line
GenOpen ==
    /\ hpc = "opening"
    /\ upstream' = [kind |-> "stream", http |-> 200, body |-> NoBody]
    /\ hpc' = "streaming"
    /\ UNCHANGED << endpoint, token, content, filename, instructions, model, support,
                    status, detail, uncaught, result, text_content, req_chunks,
                    prompt, sent, received, events >>
    /\ UNCHANGED chunkVars
    /\ UNCHANGED otherVars
    /\ UNCHANGED extractVars

\* auth.py:287-291: opening the response raises (no handler in generate);
\* the exception is on its way out through the `async with` of the client
GenOpenFails ==
    /\ hpc = "opening"
    /\ \E o \in {Timeout, TransportError} :
         /\ upstream' = o
         /\ pending' = IF o = Timeout THEN "httpx.TimeoutException"
                       ELSE "httpx.TransportError"
    /\ hpc' = "closing"
    /\ UNCHANGED << endpoint, token, content, filename, instructions, model, support,
                    status, detail, uncaught, result, text_content, req_chunks, prompt,
                    sent, received, events >>
    /\ UNCHANGED chunkVars
    /\ UNCHANGED << acctVars, concVars, client >>
    /\ UNCHANGED extractVars

\* auth.py:293-301: what the generator yields for one line
stream_line_events(line) ==
    IF line.kind = "object" THEN object_events(line) ELSE << >>

\* the events yielded so far, after one more
relay_newest_first(evs, ev) == << ev >> \o evs

relay(evs, ev) == Append(evs, ev)

\* auth.py:294-301: handling the line raises an exception that the handler
\* for json.JSONDecodeError does not catch
line_raises_undecoded(line) == line.kind \in {"nonobject", "malformed"}

line_raises(line) == line.kind = "nonobject"

\* auth.py:292-299: aiter_lines() gives a line and generate() runs to its
\* next wait: the yield of line 297 or of line 299, the next line, or the
\* close of the response when handling the line raised
GenLine ==
    /\ hpc = "streaming"
    /\ Len(received) < MaxLines
    /\ \E line \in Lines :
         /\ received' = Append(received, line)
         /\ IF line_raises(line)
            THEN \* "response" in data, or data.get, raises: not a JSONDecodeError
                 /\ pending' \in {"TypeError", "AttributeError"}
                 /\ hpc' = "closing"
                 /\ UNCHANGED events
            ELSE /\ pending' = pending
                 /\ IF stream_line_events(line) = << >>
                    THEN UNCHANGED << events, hpc >>
                    ELSE /\ events' = relay(events, Head(stream_line_events(line)))
                         /\ hpc' = IF Head(stream_line_events(line)).key = "text"
                                   THEN "yield_text" ELSE "yield_done"
    /\ UNCHANGED << endpoint, token, content, filename, instructions, model, support,
                    status, detail, uncaught, result, text_content, req_chunks, prompt,
                    sent, upstream >>
    /\ UNCHANGED chunkVars
    /\ UNCHANGED << acctVars, concVars, client >>
    /\ UNCHANGED extractVars

\* auth.py:297-299: asked for its next item at the yield of line 297,
\* generate() yields the done event of the line in hand or waits for the
\* next line; at the yield of line 299 it waits for the next line
GenResume ==
    /\ hpc \in {"yield_text", "yield_done"}
    /\ IF hpc = "yield_text" /\ Len(stream_line_events(received[Len(received)])) = 2
       THEN /\ events' = relay(events, stream_line_events(received[Len(received)])[2])
            /\ hpc' = "yield_done"
       ELSE /\ hpc' = "streaming"
            /\ UNCHANGED events
    /\ UNCHANGED << endpoint, token, content, filename, instructions, model, support,
                    status, detail, uncaught, result, text_content, req_chunks,
                    prompt, sent, upstream, received >>
    /\ UNCHANGED chunkVars
    /\ UNCHANGED otherVars
    /\ UNCHANGED extractVars

\* auth.py:292: the inference service ends the response, the loop ends and
\* generate() closes the response and the client
GenEnd ==
    /\ hpc = "streaming"
    /\ hpc' = "closing"
    /\ UNCHANGED << endpoint, token, content, filename, instructions, model, support,
                    status, detail, uncaught, result, text_content, req_chunks,
                    prompt, sent, upstream, received, events >>
    /\ UNCHANGED chunkVars
    /\ UNCHANGED otherVars
    /\ UNCHANGED extractVars

\* auth.py:292: reading the response raises (no handler in generate)
GenReadFails ==
    /\ hpc = "streaming"
    /\ \E o \in {Timeout, TransportError} :
         /\ upstream' = o
         /\ pending' = IF o = Timeout THEN "httpx.TimeoutException"
                       ELSE "httpx.TransportError"
    /\ hpc' = "closing"
    /\ UNCHANGED << endpoint, token, content, filename, instructions, model, support,
                    status, detail, uncaught, result, text_content, req_chunks, prompt,
                    sent, received, events >>
    /\ UNCHANGED chunkVars
    /\ UNCHANGED << acctVars, concVars, client >>
    /\ UNCHANGED extractVars

\* auth.py:286-291: the `async with` blocks have closed the response and the
\* client: generate() returns, or the exception raised inside leaves it
GenClose ==
    /\ hpc = "closing"
    /\ IF pending = "none"
       THEN /\ hpc' = "closed"
            /\ UNCHANGED uncaught
       ELSE /\ hpc' = "aborted"
            /\ uncaught' = pending
    /\ pending' = "none"
    /\ UNCHANGED << endpoint, token, content, filename, instructions, model, support,
                    status, detail, result, text_content, req_chunks, prompt, sent,
                    upstream, received, events >>
    /\ UNCHANGED chunkVars
    /\ UNCHANGED << acctVars, concVars, client >>
    /\ UNCHANGED extractVars

Next ==
    \/ VerifyToken
    \/ AnalyzePrepare
    \/ StreamPrepare
    \/ MemPrepare
    \/ PostTimeout
    \/ PostError
    \/ PostReply
    \/ GenSend
    \/ GenOpen
    \/ GenOpenFails
    \/ GenLine
    \/ GenResume
    \/ GenEnd
    \/ GenReadFails
    \/ GenClose

Spec == Init /\ [][Next]_vars

\* the analysis requests that upload plain text files, long ones among them
SpecLong == InitLong /\ [][Next]_vars

\* ------------------------------------------------------------------------
\* extract_text_from_file called on its own (src/api/index.py:77-159)
\* ------------------------------------------------------------------------

\* the file names extract_text_from_file is called with: the uploads above,
\* extensions in other letter cases, several dots, a leading or trailing
\* dot, no dot, extensions that contain a known one, the empty name
\* in the order below:
\*    a.pdf, a.Pdf, a.PDF, a.docx, a.DocX, a.doc, a.DOC, a.dxf, a.dXF,
\*   a.TXT, a.pdf.txt, a.txt.pdf, a.b.DOCX, .pdf, .Dxf, pdf, docx, a.,
\*   a.pdf., a.pdfx, a.xpdf, a.docm, a.png, a.U+00C9, a.U+00C0 U+00D6,
\*   a.U+0130, U+0391 .U+03A3, a.U+03A3 U+0391, a.U+212A DF,
\*   and the empty name
ExtractFileNames ==
    FileNames \cup
    { << 97, 46, 112, 100, 102 >>,
      << 97, 46, 80, 100, 102 >>,
      << 97, 46, 80, 68, 70 >>,
      << 97, 46, 100, 111, 99, 120 >>,
      << 97, 46, 68, 111, 99, 88 >>,
      << 97, 46, 100, 111, 99 >>,
      << 97, 46, 68, 79, 67 >>,
      << 97, 46, 100, 120, 102 >>,
      << 97, 46, 100, 88, 70 >>,
      << 97, 46, 84, 88, 84 >>,
      << 97, 46, 112, 100, 102, 46, 116, 120, 116 >>,
      << 97, 46, 116, 120, 116, 46, 112, 100, 102 >>,
      << 97, 46, 98, 46, 68, 79, 67, 88 >>,
      << 46, 112, 100, 102 >>,
      << 46, 68, 120, 102 >>,
      << 112, 100, 102 >>,
      << 100, 111, 99, 120 >>,
      << 97, 46 >>,
      << 97, 46, 112, 100, 102, 46 >>,
      << 97, 46, 112, 100, 102, 120 >>,
      << 97, 46, 120, 112, 100, 102 >>,
      << 97, 46, 100, 111, 99, 109 >>,
      << 97, 46, 112, 110, 103 >>,
      << 97, 46, 201 >>,
      << 97, 46, 192, 214 >>,
      << 97, 46, 304 >>,
      << 913, 46, 931 >>,
      << 97, 46, 931, 913 >>,
      << 97, 46, 8490, 68, 70 >>,
      << >> }

InitExtract ==
    /\ ChunkIdle
    /\ ExtractIdle
    /\ OtherIdle
    /\ endpoint = "extract"
    /\ token = [valid |-> FALSE, sub |-> ""]
    /\ content \in Contents
    /\ filename \in ExtractFileNames
    /\ instructions = ""
    /\ model = ""
    /\ support \in SUBSET Parsers
    /\ hpc = "call"
    /\ status = 0
    /\ detail = ""
    /\ uncaught = "none"
    /\ result = NoResult
    /\ text_content = << >>
    /\ req_chunks = << >>
    /\ prompt = << >>
    /\ sent = << >>
    /\ upstream = NoOutcome
    /\ received = << >>
    /\ events = << >>

\* index.py:77-159: the call returns the text or raises HTTPException(400)
ExtractCall ==
    /\ hpc = "call"
    /\ ext_branch' = extract_branch(filename)
    /\ \E parsed \in ParseResultsFor(filename, support) :
         LET x == extract_text_from_file(content, filename, support, parsed)
         IN  /\ parser_result' = parsed
             /\ text_content' = x.text
             /\ status' = x.status
             /\ detail' = x.detail
             /\ hpc' = IF x.ok THEN "returned" ELSE "raised"
    /\ UNCHANGED << endpoint, token, content, filename, instructions, model, support,
                    uncaught, result, req_chunks, prompt, sent, upstream, received,
                    events >>
    /\ UNCHANGED chunkVars
    /\ UNCHANGED otherVars

NextExtract == ExtractCall

SpecExtract == InitExtract /\ [][NextExtract]_vars

\* ------------------------------------------------------------------------
\* The account operations of the two variants
\*   in-memory    src/api/index.py:1193-1238
\*   relational   src/users/routers/auth.py:101-167, table users auth.py:17-24
\* ------------------------------------------------------------------------

Usernames == {"ann", "bob"}

Emails == {"a@x.org", "b@x.org"}

Passwords == {"pw1", "pw2"}

\* hash_password(password): the SHA-256 digest of the password, one digest
\* for one password
hash_password_blank(password) == << "sha256", "" >>

hash_password(password) == << "sha256", password >>

\* verify_password(plain, hashed)
verify_password(plain, hashed) == hash_password(plain) = hashed

\* the k-th token secrets.token_urlsafe(32) returns; << 0 >> is a token it
\* never returned
ResetToken(k) == << k >>

\* NULL in a column of table users
Null == << >>

\* index.py:1225, auth.py:142: datetime.utcnow() + timedelta(hours=1)
expiry(t) == t + ResetTokenHours

\* the answer to an account call
Answer(code, d) == [status |-> code, detail |-> d]

\* the positions of the accounts of users_db, or rows of users, named u
Named_nobody(users, u) == {}

Named(users, u) == { i \in 1..Len(users) : users[i].username = u }

\* the positions of the accounts, or rows, with email e
WithEmail(users, e) == { i \in 1..Len(users) : users[i].email = e }

\* the first position of a set of positions that is not empty
First(is) == CHOOSE i \in is : \A j \in is : i <= j

\* index.py:1193-1202: register; the new key goes last in the dict
mem_register(users, u, e, p) ==
    IF Named(users, u) # {}
    THEN [users |-> users, out |-> Answer(400, "Username already registered")]
    ELSE [users |-> Append(users, [username |-> u, email |-> e,
                                   hashed_password |-> hash_password(p)]),
          out |-> Answer(200, "User created")]

\* auth.py:101-110: register; username and email are unique=True (auth.py:20,
\* 21), so db.commit() raises IntegrityError for an email that a row has
db_register(rows, u, e, p) ==
    IF Named(rows, u) # {}
    THEN [users |-> rows, out |-> Answer(400, "Username already registered")]
    ELSE IF WithEmail(rows, e) # {}
    THEN [users |-> rows, out |-> Answer(500, "IntegrityError")]
    ELSE [users |-> Append(rows, [username |-> u, email |-> e,
                                  hashed_password |-> hash_password(p),
                                  reset_token |-> Null,
                                  reset_token_expires |-> Null]),
          out |-> Answer(200, "User created")]

\* index.py:1204-1210, auth.py:112-119: login, the same on accounts and rows
login(users, u, p) ==
    IF Named(users, u) = {}
       \/ ~verify_password(p, users[First(Named(users, u))].hashed_password)
    THEN Answer(401, "Invalid credentials")
    ELSE Answer(200, "bearer")

\* index.py:1220-1227: forgot_password; tok is the token token_urlsafe makes
mem_forgot(users, tokens, e, tok, t) ==
    IF WithEmail(users, e) = {}
    THEN [tokens |-> tokens, out |-> Answer(404, "Email not found")]
    ELSE [tokens |-> tokens \cup
                     { [token |-> tok,
                        username |-> users[First(WithEmail(users, e))].username,
                        expires |-> expiry(t)] },
          out |-> Answer(200, "Reset token generated")]

\* auth.py:133-149: forgot_password; the row keeps one token
db_forgot(rows, e, tok, t) ==
    IF WithEmail(rows, e) = {}
    THEN [users |-> rows, out |-> Answer(404, "Email not found")]
    ELSE [users |-> [rows EXCEPT ![First(WithEmail(rows, e))] =
                        [@ EXCEPT !.reset_token = tok,
                                  !.reset_token_expires = << expiry(t) >>]],
          out |-> Answer(200, "Password reset token generated")]

\* index.py:1234, auth.py:159: the expiry time exp has passed at time t
expired_never(exp, t) == FALSE

expired(exp, t) == exp < t

\* index.py:1237: del reset_tokens[token]
spend_none(tokens, held) == tokens

spend(tokens, held) == tokens \ held

\* index.py:1229-1238: reset_password; who is the account it gave the password
mem_reset(users, tokens, tok, p, t) ==
    LET held == { d \in tokens : d.token = tok }
        data == CHOOSE d \in held : TRUE
    IN  IF held = {}
        THEN [users |-> users, tokens |-> tokens, who |-> "",
              out |-> Answer(400, "Invalid reset token")]
        ELSE IF expired(data.expires, t)
        THEN [users |-> users, tokens |-> tokens, who |-> "",
              out |-> Answer(400, "Token expired")]
        ELSE [users |-> [users EXCEPT ![First(Named(users, data.username))] =
                            [@ EXCEPT !.hashed_password = hash_password(p)]],
              tokens |-> spend(tokens, held),
              who |-> data.username,
              out |-> Answer(200, "Password reset successful")]

\* auth.py:151-167: reset_password; who is the account it gave the password
db_reset(rows, tok, p, t) ==
    LET \* the positions of the rows whose reset_token is tok; NULL equals
        \* no token
        found == { i \in 1..Len(rows) :
                     rows[i].reset_token # Null /\ rows[i].reset_token = tok }
    IN  IF found = {}
        THEN [users |-> rows, who |-> "", out |-> Answer(400, "Invalid reset token")]
        ELSE IF expired(rows[First(found)].reset_token_expires[1], t)
        THEN [users |-> rows, who |-> "", out |-> Answer(400, "Reset token expired")]
        ELSE [users |-> [rows EXCEPT ![First(found)] =
                            [@ EXCEPT !.hashed_password = hash_password(p),
                                      !.reset_token = Null,
                                      !.reset_token_expires = Null]],
              who |-> rows[First(found)].username,
              out |-> Answer(200, "Password reset successful")]

\* the account call op with its arguments and the answer ans to it; the
\* username of a reset-password call is the account it gave the password
Call(op, u, e, p, tok, ans) ==
    [op |-> op, username |-> u, email |-> e, password |-> p, token |-> tok,
     status |-> ans.status, detail |-> ans.detail]

InitAccounts ==
    /\ ChunkIdle
    /\ RequestIdle
    /\ ExtractIdle
    /\ OtherIdle

\* one more account call is made; the analysis endpoints are idle
AccountCall ==
    /\ calls < MaxCalls
    /\ calls' = calls + 1
    /\ UNCHANGED << chunkVars, reqVars, extractVars, concVars, streamVars >>

\* POST register to both variants
Register ==
    /\ AccountCall
    /\ \E u \in Usernames, e \in Emails, p \in Passwords :
         LET m == mem_register(users_db, u, e, p)
             d == db_register(users_table, u, e, p)
         IN  /\ users_db' = m.users
             /\ users_table' = d.users
             /\ mem_out' = Call("register", u, e, p, << >>, m.out)
             /\ db_out' = Call("register", u, e, p, << >>, d.out)
    /\ UNCHANGED << reset_tokens, now, issued, consumed, reset_to >>

\* POST login to both variants
Login ==
    /\ AccountCall
    /\ \E u \in Usernames, p \in Passwords :
         /\ mem_out' = Call("login", u, "", p, << >>, login(users_db, u, p))
         /\ db_out' = Call("login", u, "", p, << >>, login(users_table, u, p))
    /\ UNCHANGED << users_db, reset_tokens, users_table, now, issued, consumed,
                    reset_to >>

\* POST forgot-password to both variants; each draws its own token, the
\* model gives the two tokens of one call one name
ForgotPassword ==
    /\ AccountCall
    /\ \E e \in Emails :
         LET tok == ResetToken(issued + 1)
             m == mem_forgot(users_db, reset_tokens, e, tok, now)
             d == db_forgot(users_table, e, tok, now)
         IN  /\ reset_tokens' = m.tokens
             /\ users_table' = d.users
             /\ mem_out' = Call("forgot", "", e, "",
                                IF m.out.status = 200 THEN tok ELSE << >>, m.out)
             /\ db_out' = Call("forgot", "", e, "",
                               IF d.out.status = 200 THEN tok ELSE << >>, d.out)
             /\ issued' = IF 200 \in {m.out.status, d.out.status}
                          THEN issued + 1 ELSE issued
    /\ UNCHANGED << users_db, now, consumed, reset_to >>

\* reset_to after a reset-password call with new password p that found the
\* accounts as before and answered res: the latest successful reset of each
\* account, with the hash it replaced
NoteReset(notes, res, before, p) ==
    IF res.out.status # 200 THEN notes
    ELSE { n \in notes : n.username # res.who }
         \cup { [username |-> res.who, password |-> p,
                 previous |-> IF Named(before, res.who) = {} THEN << >>
                              ELSE before[First(Named(before, res.who))].hashed_password] }

\* POST reset-password to both variants, with a token a forgot-password call
\* returned or with one that none returned
ResetPassword ==
    /\ AccountCall
    /\ \E k \in 0..issued, p \in Passwords :
         LET tok == ResetToken(k)
             m == mem_reset(users_db, reset_tokens, tok, p, now)
             d == db_reset(users_table, tok, p, now)
         IN  /\ users_db' = m.users
             /\ reset_tokens' = m.tokens
             /\ users_table' = d.users
             /\ mem_out' = Call("reset", m.who, "", p, tok, m.out)
             /\ db_out' = Call("reset", d.who, "", p, tok, d.out)
             /\ consumed' =
                  [mem |-> IF m.out.status = 200 THEN consumed.mem \cup {tok}
                           ELSE consumed.mem,
                   db |-> IF d.out.status = 200 THEN consumed.db \cup {tok}
                          ELSE consumed.db]
             /\ reset_to' =
                  [mem |-> NoteReset(reset_to.mem, m, users_db, p),
                   db |-> NoteReset(reset_to.db, d, users_table, p)]
    /\ UNCHANGED << now, issued >>

\* an hour passes
Tick ==
    /\ now < MaxClock
    /\ now' = now + 1
    /\ UNCHANGED << users_db, reset_tokens, users_table, issued, calls, mem_out,
                    db_out, consumed, reset_to >>
    /\ UNCHANGED << chunkVars, reqVars, extractVars, concVars, streamVars >>

NextAccounts ==
    \/ Register
    \/ Login
    \/ ForgotPassword
    \/ ResetPassword
    \/ Tick

SpecAccounts == InitAccounts /\ [][NextAccounts]_vars

\* ------------------------------------------------------------------------
\* Two blocking analysis requests in flight together, while accounts are
\* registered (auth.py:182-249, index.py:1248-1287)
\* ------------------------------------------------------------------------

Requests == {1, 2}

\* the locals of a handler invocation that received its request
Received(ep, tok, bs, fn, ins, mdl) ==
    [endpoint |-> ep, token |-> tok, content |-> bs, filename |-> fn,
     instructions |-> ins, model |-> mdl, hpc |-> "recv", status |-> 0,
     detail |-> "", text_content |-> << >>, chunks |-> << >>, prompt |-> << >>,
     sent |-> << >>, upstream |-> NoOutcome, result |-> NoResult]

\* the requests made together
TogetherRequests ==
    { Received(ep, tok, bs, << 97, 46, 116, 120, 116 >>, ins, "mistral:latest") :
        ep \in Blocking,
        tok \in { [valid |-> TRUE, sub |-> "alice"], [valid |-> FALSE, sub |-> ""] },
        bs \in { << 65 >>, << 195, 169 >> },
        ins \in { "Summarize", "List the dates" } }

\* what the inference service does with a call
TogetherOutcomes ==
    { Timeout, Reply(200, Obj({"response"}, "ok", FALSE)), Reply(200, Obj({}, "", FALSE)) }

\* the locals a handler invocation works on: those of its own call
frame_shared(rs, r) == rs[1]

frame(rs, r) == rs[r]

\* auth.py:191, index.py:1255
verify_step(l) ==
    IF verify_token(l.token).ok THEN [l EXCEPT !.hpc = "read"]
    ELSE [l EXCEPT !.hpc = "done", !.status = 401, !.detail = "Invalid token"]

\* auth.py:193-236, index.py:1257-1277, with every parser imported
prepare_step(l) ==
    IF l.endpoint = "analyze"
    THEN LET d == Utf8Decode(l.content)
             cks == chunk_text(d.text, AnalyzeChunkSize, DefaultOverlap)
             p == analyze_prompt(l.instructions, l.filename, cks)
         IN  IF ~d.ok
             THEN [l EXCEPT !.hpc = "done", !.status = 400,
                            !.detail = "File must be text-based"]
             ELSE [l EXCEPT !.text_content = d.text, !.chunks = cks, !.prompt = p,
                            !.sent = post_generate(@, GenerateRequest(l.model, p, FALSE)),
                            !.hpc = "await"]
    ELSE LET x == extract_text_from_file(l.content, l.filename, Parsers, NoParse)
             p == mem_prompt(l.instructions, l.filename, x.text)
         IN  IF ~x.ok
             THEN [l EXCEPT !.hpc = "done", !.status = x.status, !.detail = x.detail]
             ELSE [l EXCEPT !.text_content = x.text, !.prompt = p,
                            !.sent = post_generate(@, GenerateRequest(l.model, p, FALSE)),
                            !.hpc = "await"]

\* auth.py:237-249, index.py:1278-1287: the call ends with outcome o
reply_step(l, o) ==
    IF o.kind = "timeout"
    THEN [l EXCEPT !.upstream = o, !.hpc = "done",
                   !.status = timeout_status(l.endpoint),
                   !.detail = IF l.endpoint = "analyze"
                              THEN "AI model timeout - try a shorter document"
                              ELSE "AI service error"]
    ELSE [l EXCEPT !.upstream = o, !.hpc = "done", !.status = 200,
                   !.result = IF l.endpoint = "analyze"
                              THEN analyze_result(l.filename, l.instructions, l.model,
                                                  l.chunks, o.body)
                              ELSE mem_result(l.filename, l.instructions, l.model,
                                              o.body)]

InitTogether ==
    /\ ChunkIdle
    /\ RequestIdle
    /\ ExtractIdle
    /\ users_db = << >>
    /\ reset_tokens = {}
    /\ users_table = << >>
    /\ now = 0
    /\ issued = 0
    /\ calls = 0
    /\ mem_out = NoCall
    /\ db_out = NoCall
    /\ consumed = [mem |-> {}, db |-> {}]
    /\ reset_to = [mem |-> {}, db |-> {}]
    /\ reqs \in [Requests -> TogetherRequests]
    /\ client = "connected"
    /\ pending = "none"

\* a handler invocation makes a step on its locals
HandlerStep(r, l) ==
    /\ reqs' = [reqs EXCEPT ![r] = l]
    /\ UNCHANGED << chunkVars, reqVars, extractVars, acctVars, streamVars >>

TogetherVerify ==
    \E r \in Requests :
        /\ frame(reqs, r).hpc = "recv"
        /\ HandlerStep(r, verify_step(frame(reqs, r)))

TogetherPrepare ==
    \E r \in Requests :
        /\ frame(reqs, r).hpc = "read"
        /\ HandlerStep(r, prepare_step(frame(reqs, r)))

TogetherReply ==
    \E r \in Requests :
        /\ frame(reqs, r).hpc = "await"
        /\ \E o \in TogetherOutcomes : HandlerStep(r, reply_step(frame(reqs, r), o))

\* the first account is registered while the requests are in flight
RegisterMeanwhile ==
    /\ users_db = << >>
    /\ Register

NextTogether ==
    \/ TogetherVerify
    \/ TogetherPrepare
    \/ TogetherReply
    \/ RegisterMeanwhile

SpecTogether == InitTogether /\ [][NextTogether]_vars

\* ------------------------------------------------------------------------
\* The streaming endpoint and its caller (auth.py:255-307)
\* ------------------------------------------------------------------------

\* generate() has not returned: it is about to start, or waits inside its
\* `async with` blocks for the response to open, for a line, at a yield, or
\* for the response and the client to close
InGenerator ==
    hpc \in {"gen", "opening", "streaming", "yield_text", "yield_done", "closing"}

InitStream ==
    /\ ChunkIdle
    /\ ExtractIdle
    /\ OtherIdle
    /\ endpoint = "analyze_stream"
    /\ token \in Tokens
    /\ content \in { c \in Contents : Len(c) <= 1 }
    /\ filename \in FileNames
    /\ instructions \in Instructions
    /\ model \in Models
    /\ support = {}
    /\ hpc = "recv"
    /\ status = 0
    /\ detail = ""
    /\ uncaught = "none"
    /\ result = NoResult
    /\ text_content = << >>
    /\ req_chunks = << >>
    /\ prompt = << >>
    /\ sent = << >>
    /\ upstream = NoOutcome
    /\ received = << >>
    /\ events = << >>

\* the caller closes its connection while the response is streamed; nothing
\* in analyze_document_stream or generate() (auth.py:255-307) reads the state
\* of the caller's connection, so no step of generate() itself depends on
\* client
ClientDisconnect ==
    /\ InGenerator
    /\ client = "connected"
    /\ client' = "gone"
    /\ UNCHANGED << chunkVars, reqVars, extractVars, acctVars, concVars, pending >>

\* auth.py:285-301: generate() is closed or cancelled by its consumer where
\* it stands (GeneratorExit at a yield or before its first step,
\* CancelledError at a wait): it unwinds through the `async with` blocks of
\* lines 286-291, which close the response and the client, and is over with
\* what it had sent, read and yielded so far; an exception that was on its
\* way out is replaced. Whether the consumer does this for a caller that has
\* gone is not decided in analyze_document_stream: the step may be taken or
\* not
GenCancel ==
    /\ InGenerator
    /\ client = "gone"
    /\ hpc' = "cancelled"
    /\ pending' = "none"
    /\ UNCHANGED << endpoint, token, content, filename, instructions, model, support,
                    status, detail, uncaught, result, text_content, req_chunks,
                    prompt, sent, upstream, received, events >>
    /\ UNCHANGED << chunkVars, extractVars, acctVars, concVars, client >>

NextStream ==
    \/ VerifyToken
    \/ StreamPrepare
    \/ GenSend
    \/ GenOpen
    \/ GenOpenFails
    \/ GenLine
    \/ GenResume
    \/ GenEnd
    \/ GenReadFails
    \/ GenClose
    \/ ClientDisconnect
    \/ GenCancel

\* no fairness: nothing in analyze_document_stream makes the consumer close
\* generate() when the caller has gone
SpecStream == InitStream /\ [][NextStream]_vars

\* ------------------------------------------------------------------------
\* Properties of chunk_text (checked under SpecChunk)
\* ------------------------------------------------------------------------

\* chunk_text has returned for a text longer than chunk_size, with
\* 0 < overlap < chunk_size
ChunkedLong ==
    /\ pc = "done"
    /\ Len(text) > chunk_size
    /\ 0 < overlap
    /\ overlap < chunk_size

\* the chunks from the i-th on, each without its first ov characters
RECURSIVE StitchFrom(_, _, _)
StitchFrom(cks, ov, i) ==
    IF i > Len(cks) THEN << >> ELSE PyDrop(cks[i], ov) \o StitchFrom(cks, ov, i + 1)

\* the first chunk followed by every later chunk without its first ov characters
Stitch(cks, ov) == IF cks = << >> THEN << >> ELSE cks[1] \o StitchFrom(cks, ov, 2)

\* C1: for a text longer than chunk_size and 0 < overlap < chunk_size, the
\* chunks stitched in order, the first overlap characters of every chunk but
\* the first dropped, are the text: nothing lost, duplicated or reordered.
C1_StitchReconstructs == ChunkedLong => Stitch(chunks, overlap) = text

\* C1 witness: a text of recognisable positions cut into three chunks or more,
\* the last of them shorter than the overlap
C1_Witness ==
    /\ ChunkedLong
    /\ text = IdText(Len(text))
    /\ Len(chunks) >= 3
    /\ Len(chunks[Len(chunks)]) < overlap

\* chunk b begins exactly ov characters before chunk a ends: the last ov
\* characters of a are the first ov characters of b
OverlapBy(a, b, ov) ==
    /\ Len(a) >= ov
    /\ Len(b) >= ov
    /\ PyDrop(a, Len(a) - ov) = PyTake(b, ov)

\* C2: for a text longer than chunk_size and 0 < overlap < chunk_size, every
\* chunk but the final one begins exactly overlap characters before the chunk
\* before it ends; only the final chunk may deviate.
C2_ConsecutiveOverlap ==
    ChunkedLong =>
        \A i \in 1..(Len(chunks) - 2) : OverlapBy(chunks[i], chunks[i + 1], overlap)

\* C3: a text no longer than chunk_size (the empty text, a text of exactly
\* chunk_size characters) gives exactly one chunk, the text itself, whatever
\* the overlap.
C3_ShortTextOneChunk ==
    (pc = "done" /\ Len(text) <= chunk_size) => chunks = << text >>

\* C3 witness: a non-empty text of exactly chunk_size characters has been
\* chunked with an overlap that is not below chunk_size
C3_Witness ==
    /\ pc = "done"
    /\ Len(text) = chunk_size
    /\ overlap >= chunk_size
    /\ chunks = << text >>

\* C4: chunk_text never loops forever, also with overlap >= chunk_size: every
\* iteration of its loop advances the start offset.
C4_StartAdvances == [][ChunkIter => start' > start]_vars

\* ------------------------------------------------------------------------
\* Properties of the streaming relay (checked under Spec)
\* ------------------------------------------------------------------------

\* a line carrying a response fragment and no done:true
IsFragmentLine(l) == l.kind = "object" /\ "response" \in l.keys /\ ~("done" \in l.keys /\ l.done)

\* a line that is the object {"done": true}
IsDoneLine(l) == l.kind = "object" /\ l.keys = {"done"} /\ l.done

\* the lines read so far are fragment lines, the last one possibly the done line
FragmentsThenDone(rs) ==
    \A i \in 1..Len(rs) : IsFragmentLine(rs[i]) \/ (i = Len(rs) /\ IsDoneLine(rs[i]))

\* C5: when the inference service sends lines carrying the fragments f1..fn
\* and then a done:true line, the caller has, after every line read, exactly
\* one event per line read: the text events f1..fn in that order, then one
\* done event, and nothing more when the stream ends.
C5_RelayInOrder ==
    FragmentsThenDone(received) =>
        events = [i \in 1..Len(received) |->
                    IF IsDoneLine(received[i]) THEN [key |-> "done", value |-> TRUE]
                    ELSE [key |-> "text", value |-> received[i].response]]

\* C5 witness: the stream {"response":"a"} {"response":"b"} {"done":true} has
\* been relayed and has ended
C5_Witness ==
    /\ hpc = "closed"
    /\ Len(received) = 3
    /\ received[1] = Obj({"response"}, "a", FALSE)
    /\ received[2] = Obj({"response"}, "b", FALSE)
    /\ IsDoneLine(received[3])
    /\ events = << TextEvent("a"), TextEvent("b"), DoneEvent >>

\* C6: once a done:true object has been read and the done event emitted, the
\* handler reads no further line and relays no further event: the done line
\* is the last line read and the done event the last event.
C6_NothingAfterDone ==
    /\ \A i \in 1..Len(received) :
         (received[i].kind = "object" /\ "done" \in received[i].keys /\ received[i].done)
             => i = Len(received)
    /\ \A j \in 1..Len(events) : events[j].key = "done" => j = Len(events)

\* the events of the JSON objects among the lines rs, in order: the text of
\* the response when the object has one, then done when its done is true
RECURSIVE EventsOfObjects(_)
EventsOfObjects(rs) ==
    IF rs = << >> THEN << >>
    ELSE LET l == Head(rs)
         IN  (IF l.kind = "object" /\ "response" \in l.keys
              THEN << [key |-> "text", value |-> l.response] >> ELSE << >>)
             \o (IF l.kind = "object" /\ "done" \in l.keys /\ l.done
                 THEN << [key |-> "done", value |-> TRUE] >> ELSE << >>)
             \o EventsOfObjects(Tail(rs))

\* the generator has just read a line that is not JSON
ReadsMalformed ==
    /\ Len(received') = Len(received) + 1
    /\ received'[Len(received')].kind = "malformed"

\* the events relayed are those of the JSON objects read, in order; while
\* generate() is at the yield of the text of a line that also says done,
\* the done event of that line is still to come
EventsOfLinesRead ==
    IF hpc = "yield_text" /\ Len(stream_line_events(received[Len(received)])) = 2
    THEN Append(events, [key |-> "done", value |-> TRUE]) = EventsOfObjects(received)
    ELSE events = EventsOfObjects(received)

\* C7: a line that cannot be decoded as JSON is dropped and does not end the
\* stream: reading it leaves the generator running and the events as they
\* were, and the events relayed are always those of the JSON objects read,
\* before and after such a line, in order.
C7_MalformedLineSkipped ==
    /\ []EventsOfLinesRead
    /\ [][ReadsMalformed => (hpc' = "streaming" /\ events' = events /\ uncaught' = "none")]_vars

\* C7 witness: a line that is not JSON was read between two fragment lines,
\* both fragments were relayed and the stream ended with the response
C7_Witness ==
    /\ hpc = "closed"
    /\ received = << Obj({"response"}, "a", FALSE), NotJson, Obj({"response"}, "b", FALSE) >>
    /\ events = << TextEvent("a"), TextEvent("b") >>

\* ------------------------------------------------------------------------
\* Properties of the failure classes and of the blocking result (under Spec)
\* ------------------------------------------------------------------------

\* C8: in every blocking endpoint a timeout of the inference call is answered
\* with 504, not with the 500 of the other inference failures.
C8_TimeoutIs504 ==
    (endpoint \in Blocking /\ hpc = "done" /\ upstream.kind = "timeout") => status = 504

\* the request was stopped by its file: the token was accepted and the bytes
\* are not UTF-8 (the endpoints of auth.py)
FileFailed ==
    /\ endpoint \in {"analyze", "analyze_stream"}
    /\ hpc \notin {"recv", "read"}
    /\ verify_token(token).ok
    /\ ~Utf8Decode(content).ok

\* the inference call failed: a timeout, a failure of the transport, or a
\* body that is not JSON
InferenceFailed ==
    \/ upstream.kind \in {"timeout", "transport"}
    \/ (upstream.kind = "reply" /\ upstream.body.kind = "malformed")

\* C9: a request that fails because of its file is answered with a 4xx
\* status; a request whose inference call fails is answered with a 5xx
\* status by a handler that caught the failure, in blocking and in streaming
\* mode.
C9_FailureClasses ==
    /\ FileFailed => status \in 400..499
    /\ InferenceFailed => (status \in 500..599 /\ uncaught = "none")

\* C10: in blocking mode, when the inference service answers with a JSON
\* object, analysis is the object's response when it has one and the
\* endpoint's fixed fallback string otherwise.
C10_AnalysisIsResponse ==
    (endpoint \in Blocking /\ hpc = "done" /\ upstream.kind = "reply"
        /\ upstream.body.kind = "object")
    => /\ status = 200
       /\ result.analysis =
            IF "response" \in upstream.body.keys THEN upstream.body.response
            ELSE IF endpoint = "mem_analyze" THEN "No response from AI"
            ELSE "No response"

\* C10 witness: the inference service answered {"response": "ok"} with
\* status 200 and the endpoint returned analysis "ok"
C10_Witness ==
    /\ endpoint \in Blocking
    /\ hpc = "done"
    /\ upstream = Reply(200, Obj({"response"}, "ok", FALSE))
    /\ result.analysis = "ok"

\* ------------------------------------------------------------------------
\* Properties of the prompt and of the generate request (checked under Spec)
\* ------------------------------------------------------------------------

\* the call of the inference service failed or timed out
CallFailed == upstream.kind \in {"timeout", "transport"}

\* the request is over: the handler returned or raised, the stream ended
RequestOver == hpc \in {"done", "closed", "aborted"}

\* the exception of the failed call is leaving generate(), which closes the
\* client on its way out
Unwinding == hpc = "closing" /\ pending # "none"

\* C11: every analysis request issues at most one generate request to the
\* inference service; once that call has failed or timed out the request is
\* over, no second attempt is made, in any endpoint.
C11_SingleAttempt ==
    /\ [](Len(sent) <= 1)
    /\ [](CallFailed => ((RequestOver \/ Unwinding) /\ Len(sent) = 1))
    /\ [][CallFailed => (sent' = sent /\ received' = received /\ events' = events
                            /\ upstream' = upstream)]_vars

\* a request of the in-memory variant whose one call timed out: it is over
C11_Witness ==
    /\ upstream = Timeout
    /\ RequestOver
    /\ Len(sent) = 1
    /\ endpoint = "mem_analyze"

\* the document texts a prompt embeds, in their order
Embedded(p) ==
    LET IsDocument(g) == g.seg = "document"
        ds == SelectSeq(p, IsDocument)
    IN  [i \in 1..Len(ds) |-> ds[i].val]

\* the chunker split the document of the request into more than one chunk
SplitDocument == Len(req_chunks) > 1

\* C12: for every document that the chunker splits into N > 1 chunks, the
\* text embedded in the prompt built, and in the prompt of every generate
\* request sent, is exactly the first chunk, once; no prompt embeds one of
\* the chunks 2..N or a text merged from several chunks.
C12_OnlyFirstChunk ==
    SplitDocument =>
        /\ Embedded(prompt) = << req_chunks[1] >>
        /\ \A i \in 1..Len(sent) : Embedded(sent[i].prompt) = << req_chunks[1] >>

\* a document split into three different chunks, its generate request sent
C12_Witness ==
    /\ Len(req_chunks) = 3
    /\ req_chunks[2] # req_chunks[1]
    /\ req_chunks[3] # req_chunks[1]
    /\ Len(sent) = 1
    /\ RequestOver

\* the chunk counts a prompt states, in their order
Counts(p) ==
    LET IsCount(g) == g.seg = "count"
        ns == SelectSeq(p, IsCount)
    IN  [i \in 1..Len(ns) |-> ns[i].val[1]]

\* the prompt says that the document was split into n parts and that this is
\* part 1 of n
MultiChunkTemplate(p, n) ==
    /\ Counts(p) = << n, n >>
    /\ \E i \in 1..Len(p) : p[i] = Lit(") - Part 1 of ")
    /\ p[1] = Lit("You are an expert document analyst. This is a large document split into ")

\* the prompt states no number of parts
SingleChunkTemplate(p) ==
    /\ Counts(p) = << >>
    /\ \A i \in 1..Len(p) : p[i] # Lit(") - Part 1 of ")

\* C13: for every analysis request, blocking or streaming, the prompt uses
\* the multi-chunk template, with N the number of chunks produced, if and
\* only if the chunker produced more than one chunk; otherwise it uses the
\* single-chunk template.
C13_TemplateByChunkCount ==
    req_chunks # << >> =>
        IF Len(req_chunks) > 1
        THEN MultiChunkTemplate(prompt, Len(req_chunks))
        ELSE SingleChunkTemplate(prompt)

\* a is b[:len(a)]
IsPrefix(a, b) == Len(a) <= Len(b) /\ a = SubSeq(b, 1, Len(a))

\* p embeds one document text, of at most TruncateTo characters, that is a
\* prefix of t
EmbedsBoundedPrefix(p, t) ==
    /\ Len(Embedded(p)) = 1
    /\ Len(Embedded(p)[1]) <= TruncateTo
    /\ IsPrefix(Embedded(p)[1], t)

\* C14: in every analysis endpoint and for every uploaded document,
\* including documents that fit in a single chunk, the document text embedded
\* in the prompt (the prompt built and the prompt of every generate request
\* sent) is at most truncate_to = 12000 characters long and is a prefix of
\* the extracted text.
C14_EmbeddedIsBoundedPrefix ==
    /\ prompt # << >> => EmbedsBoundedPrefix(prompt, text_content)
    /\ \A i \in 1..Len(sent) : EmbedsBoundedPrefix(sent[i].prompt, text_content)

\* the in-memory endpoint has sent a prompt that embeds the first 12000
\* characters of a longer text
C14_Witness ==
    /\ endpoint = "mem_analyze"
    /\ Len(text_content) > TruncateTo
    /\ Len(sent) = 1
    /\ Len(Embedded(sent[1].prompt)[1]) = TruncateTo

\* the prompt p holds the instructions, the file name and the text, each as
\* it was given, the instructions before the file name before the text
InOrder(p, ins, fn, t) ==
    \E i, j, k \in 1..Len(p) :
        /\ i < j /\ j < k
        /\ p[i] = SegInstructions(ins)
        /\ p[j] = SegFilename(fn)
        /\ p[k] = SegDocument(t)

\* the text the endpoint gives to its prompt: the first chunk, or the
\* truncated text
PromptText ==
    IF endpoint = "mem_analyze" THEN PyTake(text_content, TruncateTo)
    ELSE req_chunks[1]

\* C15: the assembled prompt (the prompt built and the prompt of every
\* generate request sent) contains the instructions, the filename and the
\* (truncated) document text, in that relative order: instructions before
\* filename before text.
C15_PromptOrder ==
    /\ prompt # << >> => InOrder(prompt, instructions, filename, PromptText)
    /\ \A i \in 1..Len(sent) :
          InOrder(sent[i].prompt, instructions, filename, PromptText)

\* the in-memory endpoint has sent the prompt for a file that is not empty
C15_Witness ==
    /\ endpoint = "mem_analyze"
    /\ Len(sent) = 1
    /\ text_content # << >>
    /\ sent[1].prompt = prompt

\* ------------------------------------------------------------------------
\* Properties of extract_text_from_file (checked under SpecExtract)
\* ------------------------------------------------------------------------

\* a and b are one letter of A-Z or a-z, in the same or in different case,
\* or one character
SameLetter(a, b) ==
    \/ a = b
    \/ \E u \in 65..90 : {a, b} = {u, u + 32}

\* the positions of the dots of a file name
Dots(fn) == { i \in 1..Len(fn) : fn[i] = 46 }

\* the position of the last dot of a file name that has one
LastDot(fn) == CHOOSE d \in Dots(fn) : \A e \in Dots(fn) : e <= d

\* the file name has a dot and the text after its last dot is e, in any
\* letter case
HasExtension(fn, e) ==
    /\ Dots(fn) # {}
    /\ Len(fn) - LastDot(fn) = Len(e)
    /\ \A i \in 1..Len(e) : SameLetter(fn[LastDot(fn) + i], e[i])

\* the branch the file name is to select
BranchOfExtension(fn) ==
    IF HasExtension(fn, ExtPdf) THEN "pdf"
    ELSE IF HasExtension(fn, ExtDocx) \/ HasExtension(fn, ExtDoc) THEN "docx"
    ELSE IF HasExtension(fn, ExtDxf) THEN "dxf"
    ELSE "text"

\* two file names that differ only in the letter case of their extensions
ExtensionCaseVariants(fn, gn) ==
    /\ Dots(fn) # {} /\ Dots(gn) # {}
    /\ Len(fn) = Len(gn)
    /\ LastDot(fn) = LastDot(gn)
    /\ \A i \in 1..Len(fn) :
          IF i <= LastDot(fn) THEN fn[i] = gn[i] ELSE SameLetter(fn[i], gn[i])

\* C16: extract_text_from_file dispatches only on the case-insensitive
\* extension of the filename (the text after its last dot): pdf selects the
\* PDF parser, docx or doc the Word parser, dxf the DXF parser, every other
\* extension and a filename with no dot select plain-text decoding of the
\* content, whatever the content and the parsers imported; two filenames
\* whose extensions differ only in letter case select the same branch.
C16_DispatchOnExtension ==
    ext_branch # "none" =>
        /\ ext_branch = BranchOfExtension(filename)
        /\ \A gn \in ExtractFileNames :
              ExtensionCaseVariants(filename, gn) => extract_branch(gn) = ext_branch
        /\ ext_branch = "text" =>
              /\ parser_result = NoParse
              /\ hpc = "returned" =>
                    text_content \in { Utf8Decode(content).text, Latin1Decode(content).text }
        /\ (ext_branch # "text" /\ hpc = "returned") => parser_result.ok

\* a name with two dots and an upper case extension went to the Word parser
C16_Witness ==
    /\ filename = << 97, 46, 98, 46, 68, 79, 67, 88 >>
    /\ ext_branch = "docx"
    /\ hpc = "returned"
    /\ parser_result.ok

\* the detail of the error raised for a branch whose parser was not imported
UnsupportedFormat(branch) ==
    IF branch = "pdf" THEN "PDF support not available"
    ELSE IF branch = "docx" THEN "Word document support not available"
    ELSE "DXF support not available"

\* the file has the extension of a parser that was not imported
ParserUnavailable ==
    /\ hpc # "call"
    /\ BranchOfExtension(filename) \in Parsers \ support

\* C17: when a file with extension pdf, docx/doc or dxf arrives while the
\* corresponding parser is unavailable, extraction fails with
\* UnsupportedFormat (a 400 error), for every content; no parser is called
\* and the bytes are not decoded as plain text: no text is returned.
C17_UnsupportedFormat ==
    ParserUnavailable =>
        /\ hpc = "raised"
        /\ status = 400
        /\ detail = UnsupportedFormat(BranchOfExtension(filename))
        /\ parser_result = NoParse
        /\ text_content = << >>

\* a .doc file of valid UTF-8 text, python-docx not imported
C17_Witness ==
    /\ ParserUnavailable
    /\ filename = << 97, 46, 68, 79, 67 >>
    /\ content = << 65, 65 >>
    /\ support = {"pdf", "dxf"}
    /\ detail = "Word document support not available"

\* some decoding of the plain text branch accepts the bytes
TextDecodable(bs) == Utf8Decode(bs).ok \/ Latin1Decode(bs).ok

\* the outcome x of an extraction is the error UnreadableFile
UnreadableFile(x) == ~x.ok /\ x.status = 400 /\ x.detail = "Unable to read file. Supported formats: PDF, DOCX, DXF, TXT, MD, JSON, CSV, and code files."

\* C19: extracting a file with an unrecognized extension whose bytes are not
\* text-decodable fails with UnreadableFile (the 400 "Unable to read file"
\* error), and that error outcome is reachable: some file name and content
\* make extract_text_from_file raise it.
C19_UnreadableFileReachable ==
    /\ (hpc # "call" /\ BranchOfExtension(filename) = "text" /\ ~TextDecodable(content))
          => (hpc = "raised" /\ status = 400 /\ UnreadableFile([ok |-> FALSE, status |-> status, detail |-> detail]))
    /\ \E fn \in ExtractFileNames, bs \in Contents, sup \in SUBSET Parsers :
          \E parsed \in ParseResultsFor(fn, sup) :
              UnreadableFile(extract_text_from_file(bs, fn, sup, parsed))

\* the texts of the pages that have text, in page order, a line feed between
\* one and the next
RECURSIVE PagesText(_)
PagesText(pages) ==
    IF pages = << >> THEN << >>
    ELSE LET rest == PagesText(Tail(pages))
         IN  IF Head(pages) = << >> THEN rest
             ELSE IF rest = << >> THEN Head(pages)
             ELSE Head(pages) \o << 10 >> \o rest

\* the PDF parser read the file: parser_result.parts are the texts of its pages
PdfParsed ==
    /\ hpc # "call"
    /\ ext_branch = "pdf"
    /\ parser_result.ok

\* C20: PDF extraction returns the texts of exactly those pages that yield
\* non-empty text, in page order, joined by a single newline; a page with no
\* extractable text contributes nothing (no empty line and no error), so a
\* two-page PDF where only page 2 has text extracts to exactly page 2's text.
C20_PdfPagesJoined ==
    PdfParsed =>
        /\ hpc = "returned"
        /\ text_content = PagesText(parser_result.parts)
        /\ (Len(parser_result.parts) = 2 /\ parser_result.parts[1] = << >>)
              => text_content = parser_result.parts[2]

\* a PDF of two pages, the first without text, the second with text
C20_Witness ==
    /\ PdfParsed
    /\ parser_result.parts = << << >>, << 65 >> >>
    /\ text_content = << 65 >>
    /\ hpc = "returned"

\* ------------------------------------------------------------------------
\* Properties of the text extraction of the endpoints (checked under Spec)
\* ------------------------------------------------------------------------

\* an authorised request has read and decoded its plain text upload
PlainTextRead ==
    /\ endpoint \in Endpoints
    /\ BranchOfExtension(filename) = "text"
    /\ verify_token(token).ok
    /\ hpc \notin {"recv", "read"}

\* the text a plain text upload is to extract to
PlainTextOf(bs) ==
    IF Utf8Decode(bs).ok THEN Utf8Decode(bs).text ELSE Latin1Decode(bs).text

\* C18: in every analysis endpoint (the in-memory /auth/analyze, the
\* relational /analyze and /analyze/stream) a plain-text upload extracts
\* without error: to the exact UTF-8 decoding when its bytes are valid UTF-8,
\* to the Latin-1 decoding when they are not.
C18_PlainTextExtracts ==
    PlainTextRead =>
        /\ status # 400
        /\ text_content = PlainTextOf(content)

\* the in-memory endpoint has called extract_text_from_file
MemExtracted == endpoint = "mem_analyze" /\ ext_branch # "none"

\* extract_text_from_file raised
ExtractionFailed == MemExtracted /\ prompt = << >> /\ hpc = "done"

\* the text extracted from a file that is not empty is empty
SilentlyEmpty == content # << >> /\ text_content = << >>

\* C21: whenever extraction cannot obtain the text of the uploaded bytes the
\* request fails with an explicit descriptive error (a 400 with a detail)
\* before any prompt is built or sent; a successful extraction is valid text
\* of the document: the decoding of a plain text file, never a silently
\* empty text.
C21_ExplicitExtractionError ==
    /\ ExtractionFailed =>
          (status = 400 /\ detail # "" /\ sent = << >> /\ text_content = << >>)
    /\ (MemExtracted /\ prompt # << >>) =>
          /\ ~SilentlyEmpty
          /\ ext_branch = "text" => text_content = PlainTextOf(content)

\* ------------------------------------------------------------------------
\* Properties of analysis requests in flight together (checked under
\* SpecTogether)
\* ------------------------------------------------------------------------

\* the prompt of a request from what the request itself brought
OwnPrompt(l) ==
    IF l.endpoint = "analyze"
    THEN analyze_prompt(l.instructions, l.filename,
                        chunk_text(Utf8Decode(l.content).text, AnalyzeChunkSize,
                                   DefaultOverlap))
    ELSE mem_prompt(l.instructions, l.filename, PlainTextOf(l.content))

\* the result of a request from what the request itself brought and the
\* reply to its own call
OwnResult(l) ==
    IF l.endpoint = "analyze"
    THEN [filename |-> l.filename, instructions |-> l.instructions,
          analysis |-> get_response(l.upstream.body, "No response"),
          model |-> l.model, chunks_processed |-> 1]
    ELSE [filename |-> l.filename, instructions |-> l.instructions,
          analysis |-> get_response(l.upstream.body, "No response from AI"),
          model |-> l.model]

\* what a request brought
Brought(l) ==
    << l.endpoint, l.token, l.content, l.filename, l.instructions, l.model >>

OwnOutputs ==
    \A r \in DOMAIN reqs :
        /\ reqs[r].prompt # << >> => reqs[r].prompt = OwnPrompt(reqs[r])
        /\ \A i \in 1..Len(reqs[r].sent) : reqs[r].sent[i].prompt = OwnPrompt(reqs[r])
        /\ reqs[r].result # NoResult => reqs[r].result = OwnResult(reqs[r])

\* a step of the handler of one request leaves the accounts, what the other
\* request brought and the locals of the other request as they are
OwnWrites ==
    reqs' # reqs =>
        /\ UNCHANGED acctVars
        /\ \E r \in DOMAIN reqs :
              /\ Brought(reqs'[r]) = Brought(reqs[r])
              /\ \A q \in DOMAIN reqs \ {r} : reqs'[q] = reqs[q]

\* C22: analysis requests are independent under any interleaving: the prompt
\* and the result of each request depend only on that request's own
\* instructions, file, model and the inference reply to its own call, and
\* handling a request writes no state shared with another request (the
\* accounts, the other request).
C22_RequestsIndependent == []OwnOutputs /\ [][OwnWrites]_vars

\* two requests that differ have both returned a result, on different replies,
\* and an account was registered meanwhile
C22_Witness ==
    /\ reqs # << >>
    /\ reqs[1].result # NoResult
    /\ reqs[2].result # NoResult
    /\ reqs[1].prompt # reqs[2].prompt
    /\ reqs[1].upstream # reqs[2].upstream
    /\ users_db # << >>

\* ------------------------------------------------------------------------
\* Properties of the streaming endpoint and its caller (checked under
\* SpecStream)
\* ------------------------------------------------------------------------

\* generate() pulls a line from the generation stream
PullsLine == received' # received

\* C23: in streaming mode, once the client has disconnected mid-stream the
\* handler stops pulling lines from the generation stream: no step taken
\* while the client is gone pulls a line. (The claim goes on to say that the
\* connection to the inference service is then closed; generate() closes it
\* only when it leaves its `async with` blocks, which it does when the
\* inference service ends the response, reading it fails, or its consumer
\* closes it.)
C23_DisconnectStopsPulling == [][client = "gone" => ~PullsLine]_vars

\* ------------------------------------------------------------------------
\* Properties of the account operations (checked under SpecAccounts)
\* ------------------------------------------------------------------------

\* the call succeeded: the handler returned normally (200)
Succeeded(out) == out.status = 200

\* C24: the in-memory variant and the relational-store variant are the same
\* service on the account operations: for every sequence of register, login,
\* forgot-password and reset-password calls, two users with one email and
\* several reset tokens of one user included, each call succeeds in both
\* variants or fails in both.
C24_SameOutcome == Succeeded(mem_out) <=> Succeeded(db_out)

\* ------------------------------------------------------------------------
\* chunk_text as a function of its arguments (checked under SpecChunkRuns)
\* ------------------------------------------------------------------------

\* the text is longer than chunk_size and 0 <= overlap < chunk_size
LongAndAdvancing ==
    /\ Len(text) > chunk_size
    /\ 0 <= overlap
    /\ overlap < chunk_size

\* s = chunk_size - overlap
Stride == chunk_size - overlap

\* ceil(a / b)
CeilDiv(a, b) == (a + b - 1) \div b

\* text[k*s : k*s + chunk_size]
Window(k) == PySlice(text, k * Stride, k * Stride + chunk_size)

\* the chunks so far are the windows k = 0, 1, ... with k*s < n, in order
AreWindows ==
    \A i \in 1..Len(chunks) :
        /\ (i - 1) * Stride < Len(text)
        /\ chunks[i] = Window(i - 1)

\* what chunk_text returned: all the windows, hence non-empty chunks of at
\* most chunk_size, the last ending at the end of the text
AllWindows ==
    /\ AreWindows
    /\ Len(chunks) = CeilDiv(Len(text), Stride)
    /\ \A i \in 1..Len(chunks) : Len(chunks[i]) \in 1..chunk_size
    /\ (Len(chunks) - 1) * Stride + Len(chunks[Len(chunks)]) = Len(text)

\* C25: for every text of length n > chunk_size and every
\* 0 <= overlap < chunk_size, chunk_text terminates and returns exactly the
\* chunks text[k*s : k*s + chunk_size] for k = 0, 1, ... while k*s < n, where
\* s = chunk_size - overlap; hence every chunk is non-empty and at most
\* chunk_size long, the last chunk ends at the end of the text, and there
\* are ceil(n / s) chunks.
C25_ChunksAreWindows ==
    /\ [](LongAndAdvancing /\ pc = "loop" => AreWindows)
    /\ [](LongAndAdvancing /\ pc = "done" => AllWindows)
    /\ (LongAndAdvancing /\ pc = "call") ~> (pc = "done")

\* C25 witness: a text of recognisable positions returned in three chunks or
\* more that do not overlap, the last one cut short by the end of the text
C25_Witness ==
    /\ LongAndAdvancing
    /\ pc = "done"
    /\ overlap = 0
    /\ text = IdText(Len(text))
    /\ Len(chunks) >= 3
    /\ Len(chunks[Len(chunks)]) < chunk_size

\* ------------------------------------------------------------------------
\* Token verification in the analysis endpoints (checked under Spec)
\* ------------------------------------------------------------------------

\* jwt.decode does not accept the token: bad signature, malformed or expired
BadToken == ~token.valid

\* nothing of the uploaded file has been decoded, parsed, chunked or put in
\* a prompt
NeverExtracted ==
    /\ text_content = << >>
    /\ req_chunks = << >>
    /\ prompt = << >>
    /\ parser_result = NoParse
    /\ ext_branch = "none"

\* no generate request was posted and no stream opened
NothingSent ==
    /\ sent = << >>
    /\ upstream = NoOutcome
    /\ received = << >>
    /\ events = << >>

\* C26: in every analysis endpoint the bearer token is verified first: a
\* request whose token is invalid or expired is rejected with 401, and for
\* such a request the uploaded file is never extracted and no generate
\* request is ever sent to the inference service.
C26_TokenVerifiedFirst ==
    BadToken =>
        /\ NeverExtracted
        /\ NothingSent
        /\ hpc \in {"recv", "done"}
        /\ hpc = "done" => status = 401 /\ detail = "Invalid token"

\* a request to the streaming endpoint with a text file and a well-formed
\* payload in a token that jwt.decode refuses has been answered
C26_Witness ==
    /\ BadToken
    /\ token.sub # ""
    /\ endpoint = "analyze_stream"
    /\ content # << >>
    /\ hpc = "done"
    /\ status = 401

\* the variants, and the accounts, tokens and last answer of each
Variants == {"mem", "db"}

accounts(v) == IF v = "mem" THEN users_db ELSE users_table

answer(v) == IF v = "mem" THEN mem_out ELSE db_out

\* the reset tokens a variant stores, each with the hour it expires
stored_tokens(v) ==
    IF v = "mem"
    THEN { [token |-> d.token, expires |-> d.expires] : d \in reset_tokens }
    ELSE { [token |-> users_table[i].reset_token,
            expires |-> users_table[i].reset_token_expires[1]] :
           i \in { n \in 1..Len(users_table) : users_table[n].reset_token # Null } }

\* the same three in the next state
accounts_after(v) == IF v = "mem" THEN users_db' ELSE users_table'

answer_after(v) == IF v = "mem" THEN mem_out' ELSE db_out'

stored_tokens_after(v) ==
    IF v = "mem"
    THEN { [token |-> d.token, expires |-> d.expires] : d \in reset_tokens' }
    ELSE { [token |-> users_table'[i].reset_token,
            expires |-> users_table'[i].reset_token_expires[1]] :
           i \in { n \in 1..Len(users_table') : users_table'[n].reset_token # Null } }

\* variant v refuses the reset-password call of this step with 400 and detail
\* d (any detail when d is ""), and keeps every account and every token
ResetRefused(v, d) ==
    /\ answer_after(v).status = 400
    /\ d # "" => answer_after(v).detail = d
    /\ accounts_after(v) = accounts(v)
    /\ stored_tokens_after(v) = stored_tokens(v)

\* C27: a reset token is single-use: after reset-password has succeeded with
\* a token, every later reset-password call with that same token fails with
\* "Invalid reset token" and changes no password, in both variants and after
\* any sequence of other operations.
C27_TokenSingleUse ==
    [][\A v \in Variants :
         ResetPassword /\ answer_after(v).token \in consumed[v]
             => ResetRefused(v, "Invalid reset token")]_vars

\* a token that had reset a password in both variants was presented again,
\* after another token had been requested, and was refused by both
C27_Witness ==
    /\ mem_out.op = "reset"
    /\ mem_out.token \in consumed.mem \cap consumed.db
    /\ issued >= 2
    /\ mem_out.status = 400
    /\ db_out.status = 400
    /\ mem_out.detail = "Invalid reset token"
    /\ db_out.detail = "Invalid reset token"

\* variant v stores no token tok
UnknownToken(v, tok) == \A d \in stored_tokens(v) : d.token # tok

\* variant v stores the token tok and its expiry time has passed
ExpiredToken(v, tok) == \E d \in stored_tokens(v) : d.token = tok /\ d.expires < now

\* C28: reset-password called with an unknown token or with a token whose
\* expiry time has passed fails with a 400 error and leaves every stored
\* password hash and every stored reset token unchanged.
C28_BadTokenChangesNothing ==
    [][\A v \in Variants :
         /\ ResetPassword
         /\ \/ UnknownToken(v, answer_after(v).token)
            \/ ExpiredToken(v, answer_after(v).token)
         => ResetRefused(v, "")]_vars

\* both variants have refused a token they still store, its hour having
\* passed
C28_Witness ==
    /\ mem_out.op = "reset"
    /\ ExpiredToken("mem", mem_out.token)
    /\ ExpiredToken("db", db_out.token)
    /\ mem_out.status = 400
    /\ db_out.status = 400
    /\ mem_out.detail = "Token expired"
    /\ db_out.detail = "Reset token expired"

\* the accounts of variant v with username u
AccountsOf(v, u) == { i \in 1..Len(accounts(v)) : accounts(v)[i].username = u }

\* variant v refuses the register call of this step and keeps the accounts
RegisterRefused(v) ==
    /\ answer_after(v).status = 400
    /\ answer_after(v).detail = "Username already registered"
    /\ accounts_after(v) = accounts(v)

\* C29: usernames stay unique and registered accounts are never overwritten
\* by registration: there is at most one account per username, and register
\* with an already registered username fails with 400 "Username already
\* registered" and leaves that account's email and password hash unchanged.
C29_UsernamesUnique ==
    /\ [](\A v \in Variants : \A u \in Usernames : Cardinality(AccountsOf(v, u)) <= 1)
    /\ [][\A v \in Variants :
            Register /\ AccountsOf(v, answer_after(v).username) # {}
                => RegisterRefused(v)]_vars

\* a registered username was registered again with another email and another
\* password, and both variants refused
C29_Witness ==
    /\ mem_out.op = "register"
    /\ mem_out.status = 400
    /\ db_out.status = 400
    /\ \E i \in AccountsOf("mem", mem_out.username) :
         /\ users_db[i].email # mem_out.email
         /\ users_db[i].hashed_password # << "sha256", mem_out.password >>
    /\ \E i \in AccountsOf("db", db_out.username) :
         /\ users_table[i].email # db_out.email
         /\ users_table[i].hashed_password # << "sha256", db_out.password >>

\* what login answers in variant v for username u and password p
LoginStatus(v, u, p) ==
    IF \E i \in AccountsOf(v, u) : accounts(v)[i].hashed_password = << "sha256", p >>
    THEN 200 ELSE 401

\* the passwords whose digest is h
HashedTo(h) == { q \in Passwords : h = << "sha256", q >> }

\* the accounts of variant v other than u are in the next state as they are
OthersKept(v, u) ==
    /\ Len(accounts_after(v)) = Len(accounts(v))
    /\ \A i \in 1..Len(accounts(v)) :
         accounts(v)[i].username # u =>
             /\ accounts_after(v)[i].username = accounts(v)[i].username
             /\ accounts_after(v)[i].email = accounts(v)[i].email
             /\ accounts_after(v)[i].hashed_password = accounts(v)[i].hashed_password

\* C30: after a successful reset-password for a user with new password P,
\* and until that user's next successful reset, login for that user succeeds
\* with P and fails with 401 for the previous password when it differs from
\* P; no other user's credentials are changed by the reset.
C30_ResetTakesEffect ==
    /\ [](\A v \in Variants : \A n \in reset_to[v] :
            /\ LoginStatus(v, n.username, n.password) = 200
            /\ \A q \in HashedTo(n.previous) \ {n.password} :
                 LoginStatus(v, n.username, q) = 401)
    /\ [][\A v \in Variants :
            ResetPassword /\ answer_after(v).status = 200
                => OthersKept(v, answer_after(v).username)]_vars
    /\ [][\A v \in Variants :
            Login => answer_after(v).status =
                        LoginStatus(v, answer_after(v).username,
                                    answer_after(v).password)]_vars

\* with two accounts registered, one was given a new password that differs
\* from its previous one, and a login with the previous password was then
\* refused by both variants
C30_Witness ==
    /\ Len(users_db) = 2
    /\ Len(users_table) = 2
    /\ mem_out.op = "login"
    /\ mem_out.status = 401
    /\ db_out.status = 401
    /\ \E n \in reset_to.mem \cap reset_to.db :
         /\ n.username = mem_out.username
         /\ n.previous = << "sha256", mem_out.password >>
         /\ n.password # mem_out.password

====
